---------------------------- MODULE Spec2Model ----------------------------
(***************************************************************************)
(* Batch HTML-to-text conversion (scraper_cleaner/html_cleaner_core.py):   *)
(* the text normalizer, the output-path rules, write_output_text and       *)
(* run_batch with its manifest; and the news archive                       *)
(* (mcp_server/news_server.py): _find_best_article and the answer stream.  *)
(*                                                                         *)
(* Text is a sequence of one-character strings.  A path is a sequence of   *)
(* path segments, each segment a sequence of characters.                   *)
(***************************************************************************)
EXTENDS Integers, Sequences, FiniteSets, TLC

VARIABLES
    \* ---- the normalizer, applied to one text -------------------------
    ntext,      \* the input text handed to the normalizer
    nout,       \* its result (<<>> until a normalizer has run)
    npc,        \* "input" | "text" | "markdown": which normalizer has run
    \* ---- the file system ---------------------------------------------
    inputDirExists, \* input_dir.exists()
    disk,       \* the files found under input_dir
    extraction, \* per input file, what reading and extracting it gives:
                \* "raises" | "empty" | "text" (inputs do not change)
    fs,         \* output files: path -> content, for the files that exist
    dirs,       \* the directories that exist on the output side
    manifest,   \* the content of manifest.json (None: no such file)
    \* ---- run_batch ---------------------------------------------------
    args,       \* the keyword arguments of the call
    pc,         \* "idle" | "loop" | "returned" | "raised"
    html_files, \* the sorted list the loop runs over
    pos,        \* how many entries of html_files the for loop has taken
    count,      \* the local counter the limit is checked against
    results,    \* the list of CleanResult
    runs,       \* how many calls of run_batch have returned
    \* ---- history, for stating properties -----------------------------
    cleanCalls, \* the files clean_html_file was called on, this run
    raisedAt,   \* the loop positions whose try block raised, this run
    touched,    \* [pos, path] for every output file opened for writing, this run
    fsAtCall,   \* fs when the current run was called
    dirsAtCall, \* dirs when the current run was called
    prev,       \* the manifest of the previous run that returned
    faults,     \* how many stat/open/write calls on output files have failed
    \* ---- write_output_text called on its own -------------------------
    wcall,      \* the arguments of the call
    wfsBefore,  \* fs before the call
    wret,       \* what the call did (None before it)
    \* ---- make_flat_filename called on its own -------------------------
    mpaths,     \* the two relative paths the names are made for
    mformat,    \* the output_format of the calls
    mnames,     \* the names returned so far, one per call
    \* ---- the news archive (mcp_server/news_server.py) -----------------
    question,    \* the question asked
    dataDirExists, \* DATA_DIR.exists()
    corpus,      \* the files of DATA_DIR: file name -> content
    listing,     \* the order in which DATA_DIR.glob("*.md") yields its files
    unreadable,  \* the files whose read_text raises
    apc,         \* "idle" | "input" | "relay" | "last" | "ended" | "blocked"
                 \* | "abandoned"
    query_terms, \* the terms _find_best_article scored with
    article_path, \* what _find_best_article returned (None or Some(file))
    stream,      \* the tokens yielded to the caller so far
    ollamaCalls, \* how many requests were sent to the completion collaborator
    upstream,    \* the payload lines received from the collaborator so far
    connect,     \* how the request to the collaborator went ("none" before it)
    connOpen,    \* the streamed response of the collaborator is open
    cancelled,   \* the caller has stopped consuming the stream before its end
    \* ---- POST /batch-scrape ------------------------------------------
    surls,       \* request.urls
    sinclude,    \* request.include_raw_text
    spc,         \* "request" | "loop" | "returned"
    sresults,    \* the results list of the handler
    sscraped,    \* per URL taken by the loop, what the scraper did for it
    sstatus,     \* the status of the response (0 before it)
    \* ---- the html-cleaner commands -----------------------------------
    ccmd,        \* "batch" | "select" | "default"
    cformatOk,   \* format_output_format accepts the --format value
    cinputExists,\* input_path.exists()
    cfound,      \* how many HTML files lie under the input directory
    cpc,         \* "start" | "prompt" | "run" | "exited"
    canswer,     \* what the checkbox prompt of select did ("unused" before)
    cselected,   \* how many files are handed to run_batch
    coutcome,    \* None, or what run_batch did: [raises, failed]
    cexit,       \* None, or the exit status of the process
    \* ---- get_article -------------------------------------------------
    gfilename,   \* the filename argument: [abs, segs]
    gpc,         \* "input" | "done"
    gresult      \* what the call gave: [raised, content]

nvars == <<ntext, nout, npc>>
fvars == <<inputDirExists, disk, extraction, fs, dirs, manifest>>
bvars == <<args, pc, html_files, pos, count, results, runs,
           cleanCalls, raisedAt, touched, fsAtCall, dirsAtCall, prev, faults>>
wvars == <<wcall, wfsBefore, wret>>
mvars == <<mpaths, mformat, mnames>>
avars == <<question, dataDirExists, corpus, listing, unreadable, apc,
           query_terms, article_path, stream, ollamaCalls, upstream,
           connect, connOpen, cancelled>>
svars == <<surls, sinclude, spc, sresults, sscraped, sstatus>>
cvars == <<ccmd, cformatOk, cinputExists, cfound, cpc, canswer, cselected,
           coutcome, cexit>>
gvars == <<gfilename, gpc, gresult>>
vars  == <<nvars, fvars, bvars, wvars, mvars, avars, svars, cvars, gvars>>

NoValue == "NoValue"   \* None, where a string is expected

\* Optional values that are not strings: None is <<>>, a value x is <<x>>.
None == <<>>
Some(x) == <<x>>

\* no path (a path has at least one segment)
NoPath == <<>>

(***************************************************************************)
(* Characters                                                              *)
(***************************************************************************)
LF == "\n"
CR == "\r"
SP == " "

\* str.strip() / str.rstrip() with no argument strip whitespace characters.
IsSpace(c) == c \in {SP, LF, CR, "\t"}

\* s[i..j] as a sequence (empty when i > j)
Slice(s, i, j) == [k \in 1..(j - i + 1) |-> s[i + k - 1]]

(***************************************************************************)
(* str methods used by the normalizer                                      *)
(***************************************************************************)
\* text.replace("\r\n", "\n"): left-to-right, non-overlapping
RECURSIVE ReplaceCRLF(_)
ReplaceCRLF(s) ==
    IF s = <<>> THEN <<>>
    ELSE IF Len(s) >= 2 /\ s[1] = CR /\ s[2] = LF
         THEN <<LF>> \o ReplaceCRLF(Slice(s, 3, Len(s)))
         ELSE <<s[1]>> \o ReplaceCRLF(Tail(s))

\* text.replace("\r", "\n")
ReplaceCR(s) == [i \in 1..Len(s) |-> IF s[i] = CR THEN LF ELSE s[i]]

\* text.split("\n"): always at least one (possibly empty) line
RECURSIVE SplitLF(_, _)
SplitLF(s, cur) ==
    IF s = <<>> THEN <<cur>>
    ELSE IF s[1] = LF
         THEN <<cur>> \o SplitLF(Tail(s), <<>>)
         ELSE SplitLF(Tail(s), Append(cur, s[1]))

\* ln.rstrip()
RECURSIVE RStrip(_)
RStrip(s) ==
    IF s # <<>> /\ IsSpace(s[Len(s)]) THEN RStrip(Slice(s, 1, Len(s) - 1)) ELSE s

\* ln.lstrip()
RECURSIVE LStrip(_)
LStrip(s) ==
    IF s # <<>> /\ IsSpace(s[1]) THEN LStrip(Tail(s)) ELSE s

\* s.strip()
Strip(s) == LStrip(RStrip(s))

\* "\n".join(lines)
RECURSIVE JoinLF(_)
JoinLF(lines) ==
    IF lines = <<>> THEN <<>>
    ELSE IF Len(lines) = 1 THEN lines[1]
    ELSE lines[1] \o <<LF>> \o JoinLF(Tail(lines))

(***************************************************************************)
(* normalize_text                                                          *)
(***************************************************************************)
\* (variant: the comparison is off by one, blank_run <= 3)
BlankRunCapOffByOne == 2 + 1

\* A blank line is kept while blank_run <= BlankRunCap.
BlankRunCap == 2

\* the loop over lines: (remaining lines, cleaned so far, blank_run)
RECURSIVE CollapseBlankRuns(_, _, _)
CollapseBlankRuns(lines, cleaned, blank_run) ==
    IF lines = <<>> THEN cleaned
    ELSE LET ln == lines[1] IN
         IF Strip(ln) = <<>>
         THEN CollapseBlankRuns(Tail(lines),
                                IF blank_run + 1 <= BlankRunCap
                                    THEN Append(cleaned, <<>>) ELSE cleaned,
                                blank_run + 1)
         ELSE CollapseBlankRuns(Tail(lines), Append(cleaned, ln), 0)

normalize_text(text) ==
    LET t     == ReplaceCR(ReplaceCRLF(text))
        split == SplitLF(t, <<>>)
        lines == [i \in 1..Len(split) |-> RStrip(split[i])]
        cleaned == CollapseBlankRuns(lines, <<>>, 0)
    IN  Strip(JoinLF(cleaned)) \o <<LF>>

(***************************************************************************)
(* normalize_markdown                                                      *)
(***************************************************************************)
\* (variant: a newline is appended without stripping first)
normalize_markdown_unstripped(md) == ReplaceCR(ReplaceCRLF(md)) \o <<LF>>

\* (variant: markdown is cleaned like plain text)
normalize_markdown_as_text(md) == normalize_text(md)

normalize_markdown(md) == Strip(ReplaceCR(ReplaceCRLF(md))) \o <<LF>>

(***************************************************************************)
(* Paths.  A path is a sequence of segments; str(path) joins them by "/".  *)
(***************************************************************************)
\* Characters in code-point order, for str comparison (sorted() on paths).
CharOrder == <<"\t", LF, CR, SP, ".", "/", "D", "L", "O", "_",
               "a", "b", "c", "d", "h", "i", "l", "m", "n", "o", "s", "t", "u", "x">>
Ord(c) == CHOOSE i \in 1..Len(CharOrder) : CharOrder[i] = c

\* str < str
RECURSIVE StrLess(_, _)
StrLess(s, t) ==
    IF t = <<>> THEN FALSE
    ELSE IF s = <<>> THEN TRUE
    ELSE IF s[1] = t[1] THEN StrLess(Tail(s), Tail(t))
    ELSE Ord(s[1]) < Ord(t[1])

\* Path < Path: the tuples of parts are compared
RECURSIVE PathLess(_, _)
PathLess(p, q) ==
    IF q = <<>> THEN FALSE
    ELSE IF p = <<>> THEN TRUE
    ELSE IF p[1] = q[1] THEN PathLess(Tail(p), Tail(q))
    ELSE StrLess(p[1], q[1])

\* sorted(list of paths): insertion keeps equal elements in list order
RECURSIVE InsertSorted(_, _)
InsertSorted(sorted, p) ==
    IF sorted = <<>> THEN <<p>>
    ELSE IF PathLess(p, sorted[1]) THEN <<p>> \o sorted
    ELSE <<sorted[1]>> \o InsertSorted(Tail(sorted), p)

RECURSIVE SortedPaths(_)
SortedPaths(list) ==
    IF list = <<>> THEN <<>>
    ELSE InsertSorted(SortedPaths(Slice(list, 1, Len(list) - 1)), list[Len(list)])

\* sep.join(parts)
RECURSIVE Join(_, _)
Join(sep, parts) ==
    IF parts = <<>> THEN <<>>
    ELSE IF Len(parts) = 1 THEN parts[1]
    ELSE parts[1] \o sep \o Join(sep, Tail(parts))

\* s.rfind("."): the last index of ".", 0 when there is none
LastDot(s) ==
    IF \E i \in 1..Len(s) : s[i] = "."
    THEN CHOOSE i \in 1..Len(s) : s[i] = "." /\ \A j \in (i + 1)..Len(s) : s[j] # "."
    ELSE 0

EndsWith(s, suffix) ==
    /\ Len(s) >= Len(suffix)
    /\ Slice(s, Len(s) - Len(suffix) + 1, Len(s)) = suffix

\* input_file.relative_to(input_dir); NoPath stands for ValueError
IsUnder(file, dir) == Len(file) > Len(dir) /\ Slice(file, 1, Len(dir)) = dir
RelativeTo(file, dir) ==
    IF IsUnder(file, dir) THEN Slice(file, Len(dir) + 1, Len(file)) ELSE NoPath

\* PurePath.suffix of a file name: from the last dot, unless that dot is the
\* first or the last character
Suffix(name) ==
    LET i == LastDot(name) IN
    IF 1 < i /\ i < Len(name) THEN Slice(name, i, Len(name)) ELSE <<>>

\* path.with_suffix(ext)
WithSuffix(path, ext) ==
    LET name == path[Len(path)]
        stem == Slice(name, 1, Len(name) - Len(Suffix(name)))
    IN  Slice(path, 1, Len(path) - 1) \o <<stem \o ext>>

ExtTxt == <<".", "t", "x", "t">>
ExtMd  == <<".", "m", "d">>

\* (variant: ".md" for markdown only, ".txt" for everything else)
OutputExtMdForMarkdownOnly(output_format) ==
    IF output_format = "markdown" THEN ExtMd ELSE ExtTxt

\* ext = ".txt" if output_format == "txt" else ".md"
OutputExt(output_format) == IF output_format = "txt" THEN ExtTxt ELSE ExtMd

(***************************************************************************)
(* make_flat_filename                                                      *)
(***************************************************************************)
\* (variant: the same digest for every path)
Md5Hex8Constant(path_str) == <<"0", "0", "0", "0", "0", "0", "0", "0">>

\* hashlib.md5(path_str.encode("utf-8")).hexdigest()[:8], tabulated for the
\* relative paths of the model
Md5Hex8(path_str) ==
    CASE path_str = <<"a", ".", "h", "t", "m">>
            -> <<"4", "f", "7", "6", "e", "e", "e", "f">>
      [] path_str = <<"a", ".", "h", "t", "m", "l">>
            -> <<"b", "2", "4", "4", "4", "3", "2", "e">>
      [] path_str = <<"s", "u", "b", "/", "a", ".", "h", "t", "m", "l">>
            -> <<"3", "5", "e", "b", "7", "a", "b", "d">>
      [] path_str = <<"a", "/", "b", "/", "f", "i", "l", "e", ".", "h", "t", "m", "l">>
            -> <<"4", "8", "7", "e", "1", "f", "8", "a">>
      [] path_str = <<"a", "/", "b", "/", "f", "i", "l", "e", ".", "h", "t", "m">>
            -> <<"e", "8", "7", "8", "0", "9", "e", "2">>
      [] path_str = <<"a", "/", "b", ".", "h", "t", "m", "l">>
            -> <<"a", "6", "b", "0", "3", "6", "b", "f">>
      [] path_str = <<"a", "_", "_", "b", ".", "h", "t", "m", "l">>
            -> <<"9", "2", "2", "4", "9", "8", "7", "a">>
      [] path_str = <<"n", "e", "w", "s", "/", "a", "r", "t", "i", "c", "l", "e", ".", "h", "t", "m", "l">>
            -> <<"6", "f", "3", "b", "e", "0", "9", "f">>
      [] path_str = <<"n", "e", "w", "s", "/", "a", "r", "t", "i", "c", "l", "e", "2", ".", "h", "t", "m", "l">>
            -> <<"8", "4", "4", "a", "3", "6", "7", "3">>
      [] path_str = <<"v", "1", ".", "2", "/", "R", "E", "A", "D", "M", "E">>
            -> <<"d", "7", "0", "5", "d", "0", "c", "1">>
      [] path_str = <<"R", "E", "A", "D", "M", "E">>
            -> <<"c", "4", "7", "c", "7", "c", "7", "3">>
      [] path_str = <<"a", ".", "b", "/", "c", ".", "h", "t", "m", "l">>
            -> <<"2", "4", "a", "d", "3", "8", "3", "6">>
      [] path_str = <<"a", ".", "t", "a", "r", ".", "g", "z">>
            -> <<"2", "7", "3", "e", "b", "b", "f", "1">>
      [] path_str = <<"a", ".", "7", "s", "f">>
            -> <<"a", "f", "7", "8", "c", "c", "a", "c">>
      [] path_str = <<"a", ".", "a", "i", "t", "3">>
            -> <<"a", "f", "7", "8", "c", "c", "a", "c">>

make_flat_filename(relative_path, output_format) ==
    LET joined    == Join(<<"_", "_">>, relative_path)
        base_name == IF LastDot(joined) > 0
                     THEN Slice(joined, 1, LastDot(joined) - 1)
                     ELSE joined
        path_str  == Join(<<"/">>, relative_path)
    IN  base_name \o <<"_", "_">> \o Md5Hex8(path_str) \o OutputExt(output_format)

(***************************************************************************)
(* The files of the model                                                  *)
(***************************************************************************)
InputDir  == << <<"i", "n">> >>
OutputDir == << <<"o", "u", "t">> >>

NameAHtm  == <<"a", ".", "h", "t", "m">>
NameAHtml == <<"a", ".", "h", "t", "m", "l">>

FileAHtm     == InputDir \o <<NameAHtm>>
FileAHtml    == InputDir \o <<NameAHtml>>
FileSubAHtml == InputDir \o << <<"s", "u", "b">>, NameAHtml >>
\* a file that is not under input_dir (only an explicit input_files names it)
FileOutside  == << <<"x">>, NameAHtml >>

UnderRoot == {FileAHtm, FileAHtml, FileSubAHtml}
Universe  == UnderRoot \cup {FileOutside}

\* What the extractor finds in a file: here the file's own path, followed by
\* trailing blanks and a CRLF, so that every file has a text of its own.
RawText(file) == Join(<<"/">>, file) \o <<SP, CR, LF>>

\* a text left in the output directory by an earlier, different run
OldText == <<"O", "L", "D", LF>>

Prefixes(path) == {Slice(path, 1, k) : k \in 1..Len(path)}
Parent(path) == Slice(path, 1, Len(path) - 1)

RECURSIVE SetToSeq(_)
SetToSeq(S) ==
    IF S = {} THEN <<>>
    ELSE LET x == CHOOSE y \in S : TRUE IN <<x>> \o SetToSeq(S \ {x})

Range(f) == {f[i] : i \in DOMAIN f}

(***************************************************************************)
(* iter_html_files                                                         *)
(***************************************************************************)
HtmlSuffixes == << <<".", "h", "t", "m", "l">>, <<".", "h", "t", "m">> >>

\* for suffix in (".html", ".htm"): yield from input_dir.rglob("*" + suffix)
iter_html_files(input_dir, files) ==
    LET Glob(suffix) == {f \in files : IsUnder(f, input_dir)
                                       /\ EndsWith(f[Len(f)], suffix)}
    IN  SetToSeq(Glob(HtmlSuffixes[1])) \o SetToSeq(Glob(HtmlSuffixes[2]))

(***************************************************************************)
(* clean_html_file                                                         *)
(* The result is [raised, error, text].                                    *)
(***************************************************************************)
clean_html_file(input_file, output_format, outcome) ==
    IF outcome = "raises"
    THEN [raised |-> TRUE, error |-> "read or extract raised", text |-> <<>>]
    ELSE IF outcome = "empty"
    THEN [raised |-> TRUE,
          error |-> "Trafilatura could not extract main text (empty result).",
          text |-> <<>>]
    ELSE LET extracted == RawText(input_file) IN
         [raised |-> FALSE, error |-> NoValue,
          text |-> IF output_format = "txt" THEN normalize_text(extracted)
                   ELSE IF output_format = "markdown"
                        THEN normalize_markdown(extracted)
                        ELSE extracted]

(***************************************************************************)
(* write_output_text                                                       *)
(* io is what the file system does to this call: "ok", "stat_fails" (the   *)
(* stat of an existing target raises OSError), "open_fails" (write_text    *)
(* raises before the file is opened) or "write_fails" (write_text raises   *)
(* after open(mode="w") has created or truncated the file).                *)
(* The result is [raised, error, out_path, fs, dirs, opened, fault].       *)
(***************************************************************************)
IOOutcomes == {"ok", "stat_fails", "open_fails", "write_fails"}

\* lines 151-165: the target path; NoPath when relative_to raises
OutPath(output_format, input_dir, output_dir, input_file, flat_output) ==
    LET rel == RelativeTo(input_file, input_dir) IN
    IF flat_output
    THEN LET r == IF rel = NoPath THEN <<input_file[Len(input_file)]>> ELSE rel
         IN  output_dir \o <<make_flat_filename(r, output_format)>>
    ELSE IF rel = NoPath THEN NoPath
         ELSE WithSuffix(output_dir \o rel, OutputExt(output_format))

\* (variant: the overwrite flag is read the wrong way round)
KeepsExistingFlagInverted(files, out_path, overwrite, io) ==
    /\ out_path \in DOMAIN files
    /\ overwrite
    /\ \/ io = "stat_fails"
       \/ Len(files[out_path]) > 0

\* (variant: the overwrite flag is not looked at)
KeepsExistingAnyFlag(files, out_path, overwrite, io) ==
    /\ out_path \in DOMAIN files
    /\ \/ io = "stat_fails"
       \/ Len(files[out_path]) > 0

\* (variant: the except OSError branch falls through to the write)
KeepsExistingStatIgnored(files, out_path, overwrite, io) ==
    /\ out_path \in DOMAIN files
    /\ ~overwrite
    /\ io # "stat_fails"
    /\ Len(files[out_path]) > 0

\* (variant: nothing is kept, the file is always written)
KeepsExistingNever(files, out_path, overwrite, io) == FALSE

\* lines 169-177: an existing target is kept and reported
KeepsExisting(files, out_path, overwrite, io) ==
    /\ out_path \in DOMAIN files
    /\ ~overwrite
    /\ \/ io = "stat_fails"
       \/ Len(files[out_path]) > 0

\* (variant: an existing target makes the call raise unless overwrite is set,
\* as open(mode="x") would)
write_output_text_exclusive(files, dirset, text, output_format, input_dir, output_dir, input_file, overwrite, flat_output, io) ==
    LET out_path == OutPath(output_format, input_dir, output_dir, input_file,
                            flat_output)
    IN
    IF out_path = NoPath \/ (out_path \in DOMAIN files /\ ~overwrite)
    THEN [raised |-> TRUE, error |-> "exists", out_path |-> NoPath,
          fs |-> files, dirs |-> dirset, opened |-> FALSE, fault |-> FALSE]
    ELSE [raised |-> FALSE, error |-> NoValue, out_path |-> out_path,
          fs |-> (out_path :> text) @@ files,
          dirs |-> dirset \cup Prefixes(Parent(out_path)),
          opened |-> TRUE, fault |-> FALSE]

write_output_text(files, dirset, text, output_format, input_dir, output_dir, input_file, overwrite, flat_output, io) ==
    LET out_path == OutPath(output_format, input_dir, output_dir, input_file,
                            flat_output)
    IN
    IF out_path = NoPath
    THEN [raised |-> TRUE, error |-> "is not in the subpath of input_dir",
          out_path |-> NoPath, fs |-> files, dirs |-> dirset,
          opened |-> FALSE, fault |-> FALSE]
    ELSE
    LET made == dirset
                \cup (IF flat_output THEN {} ELSE Prefixes(Parent(out_path)))
                \cup Prefixes(output_dir)
    IN
    IF KeepsExisting(files, out_path, overwrite, io)
    THEN [raised |-> FALSE, error |-> NoValue, out_path |-> out_path,
          fs |-> files, dirs |-> made, opened |-> FALSE,
          fault |-> (io = "stat_fails")]
    ELSE IF io = "open_fails"
    THEN [raised |-> TRUE, error |-> "cannot open the output file",
          out_path |-> NoPath, fs |-> files, dirs |-> made,
          opened |-> FALSE, fault |-> TRUE]
    ELSE IF io = "write_fails"
    THEN [raised |-> TRUE, error |-> "cannot write the output file",
          out_path |-> NoPath, fs |-> (out_path :> <<>>) @@ files,
          dirs |-> made, opened |-> TRUE, fault |-> TRUE]
    ELSE [raised |-> FALSE, error |-> NoValue, out_path |-> out_path,
          fs |-> (out_path :> text) @@ files, dirs |-> made,
          opened |-> TRUE, fault |-> FALSE]

(***************************************************************************)
(* scripts/html_cleaner.py: write_output_text (always mirrors the tree)    *)
(***************************************************************************)
scripts_write_output_text(files, dirset, text, output_format, input_dir, output_dir, input_file, overwrite, io) ==
    LET rel == RelativeTo(input_file, input_dir) IN
    IF rel = NoPath
    THEN [raised |-> TRUE, error |-> "is not in the subpath of input_dir",
          out_path |-> NoPath, fs |-> files, dirs |-> dirset,
          opened |-> FALSE, fault |-> FALSE]
    ELSE
    LET out_path == WithSuffix(output_dir \o rel, OutputExt(output_format))
        made == dirset \cup Prefixes(Parent(out_path))
    IN
    IF /\ out_path \in DOMAIN files
       /\ ~overwrite
       /\ (io = "stat_fails" \/ Len(files[out_path]) > 0)
    THEN [raised |-> FALSE, error |-> NoValue, out_path |-> out_path,
          fs |-> files, dirs |-> made, opened |-> FALSE,
          fault |-> (io = "stat_fails")]
    ELSE IF io = "open_fails"
    THEN [raised |-> TRUE, error |-> "cannot open the output file",
          out_path |-> NoPath, fs |-> files, dirs |-> made,
          opened |-> FALSE, fault |-> TRUE]
    ELSE IF io = "write_fails"
    THEN [raised |-> TRUE, error |-> "cannot write the output file",
          out_path |-> NoPath, fs |-> (out_path :> <<>>) @@ files,
          dirs |-> made, opened |-> TRUE, fault |-> TRUE]
    ELSE [raised |-> FALSE, error |-> NoValue, out_path |-> out_path,
          fs |-> (out_path :> text) @@ files, dirs |-> made,
          opened |-> TRUE, fault |-> FALSE]

(***************************************************************************)
(* run_batch                                                               *)
(***************************************************************************)
\* (variant: output_dir.mkdir runs before the input directory is checked)
StartBatchMkdirFirst(input_exists, dirset, input_dir, output_dir, input_files, files) ==
    IF ~input_exists
    THEN [raised |-> TRUE, dirs |-> dirset \cup Prefixes(output_dir),
          html_files |-> <<>>]
    ELSE [raised |-> FALSE,
          dirs |-> dirset \cup Prefixes(output_dir),
          html_files |-> IF input_files # None
                         THEN SortedPaths(input_files[1])
                         ELSE SortedPaths(iter_html_files(input_dir, files))]

\* lines 214-225: the start of the call.  [raised, dirs, html_files]
StartBatch(input_exists, dirset, input_dir, output_dir, input_files, files) ==
    IF ~input_exists
    THEN [raised |-> TRUE, dirs |-> dirset, html_files |-> <<>>]
    ELSE [raised |-> FALSE,
          dirs |-> dirset \cup Prefixes(output_dir),
          html_files |-> IF input_files # None
                         THEN SortedPaths(input_files[1])
                         ELSE SortedPaths(iter_html_files(input_dir, files))]

\* (variant: count > limit)
LimitReachedOffByOne(limit, cnt) == limit # None /\ cnt > limit[1]

\* line 228: if limit is not None and count >= limit: break
LimitReached(limit, cnt) == limit # None /\ cnt >= limit[1]

\* lines 232-266: the try block for one file and its except branch.
\* [result, fs, dirs, raised, opened, out_path, fault]
\* (variant: the count is one too high)
ExtractedCharsPlusOne(text) == Len(text) + 1

\* extracted_chars=len(text), of the text clean_html_file returned
ExtractedChars(text) == Len(text)

ProcessOne(files, dirset, html_file, a, outcome, io) ==
    LET c == clean_html_file(html_file, a.output_format, outcome) IN
    IF c.raised
    THEN [result |-> [input_path |-> html_file, output_path |-> NoPath,
                      ok |-> FALSE, extracted_chars |-> 0, error |-> c.error],
          fs |-> files, dirs |-> dirset, raised |-> TRUE, opened |-> FALSE,
          target |-> NoPath, fault |-> FALSE]
    ELSE
    LET w == write_output_text(files, dirset, c.text, a.output_format, InputDir,
                               OutputDir, html_file, a.overwrite,
                               a.flat_output, io)
    IN
    IF w.raised
    THEN [result |-> [input_path |-> html_file, output_path |-> NoPath,
                      ok |-> FALSE, extracted_chars |-> 0, error |-> w.error],
          fs |-> w.fs, dirs |-> w.dirs, raised |-> TRUE, opened |-> w.opened,
          target |-> OutPath(a.output_format, InputDir, OutputDir, html_file,
                             a.flat_output),
          fault |-> w.fault]
    ELSE [result |-> [input_path |-> html_file, output_path |-> w.out_path,
                      ok |-> TRUE, extracted_chars |-> ExtractedChars(c.text),
                      error |-> NoValue],
          fs |-> w.fs, dirs |-> w.dirs, raised |-> FALSE, opened |-> w.opened,
          target |-> w.out_path, fault |-> w.fault]

\* lines 269-278: the manifest
CountOk(res) == Cardinality({i \in DOMAIN res : res[i].ok})
CountFailed(res) == Cardinality({i \in DOMAIN res : ~res[i].ok})

\* (variant: "ok" counts every result)
BuildManifestOkUnfiltered(res) ==
    [input_dir |-> InputDir, output_dir |-> OutputDir,
     total |-> Len(res), ok |-> Len(res), failed |-> CountFailed(res),
     results |-> res]

BuildManifest(res) ==
    [input_dir |-> InputDir, output_dir |-> OutputDir,
     total |-> Len(res), ok |-> CountOk(res), failed |-> CountFailed(res),
     results |-> res]

(***************************************************************************)
(* The batch runner as a machine.  The arguments of the call and the       *)
(* state of the file system are chosen at the start; run_batch is then     *)
(* called, and may be called again with the same arguments.                *)
(***************************************************************************)
MaxFiles == 2
MaxLimit == 1
\* failing file-system calls, and calls of run_batch, in one history
MaxFaults == 1
MaxRuns == 2

Formats == {"txt", "markdown"}
ExtractionOutcomes == {"raises", "empty", "text"}

\* explicit input_files: what a list adds to discovery is a file from
\* outside input_dir and an order of its own
ExplicitLists ==
    {<<FileOutside>>}
    \cup {<<FileOutside, f>> : f \in UnderRoot}
    \cup {<<f, FileOutside>> : f \in UnderRoot}

ArgChoices ==
    [output_format : Formats,
     overwrite     : BOOLEAN,
     limit         : {None} \cup {Some(n) : n \in 0..MaxLimit},
     flat_output   : BOOLEAN,
     input_files   : {None} \cup {Some(l) : l \in ExplicitLists}]

\* the files a call with arguments a can come to process
Candidates(a, files) ==
    IF a.input_files = None THEN files ELSE Range(a.input_files[1])

\* those of them the limit lets it reach
Reachable(a, files) ==
    LET sorted == SortedPaths(SetToSeq(Candidates(a, files)))
        n == IF a.limit = None \/ a.limit[1] > Len(sorted)
             THEN Len(sorted) ELSE a.limit[1]
    IN  {sorted[i] : i \in 1..n}

TargetPaths(a, files) ==
    {OutPath(a.output_format, InputDir, OutputDir, f, a.flat_output)
        : f \in Candidates(a, files)} \ {NoPath}

\* output files left by earlier runs: any of the targets, empty or not
Preexisting(paths) ==
    UNION {[S -> {<<>>, OldText}] : S \in SUBSET paths}

DirsOf(files) == UNION {Prefixes(Parent(p)) : p \in DOMAIN files}

NormIdle == ntext = <<>> /\ nout = <<>> /\ npc = "idle"
WriteIdle == wcall = None /\ wfsBefore = <<>> /\ wret = None
NameIdle == mpaths = <<>> /\ mformat = "unused" /\ mnames = <<>>
AskIdle ==
    /\ question = <<>> /\ dataDirExists = FALSE /\ corpus = <<>>
    /\ listing = <<>> /\ unreadable = {} /\ apc = "idle"
    /\ query_terms = <<>> /\ article_path = None /\ stream = <<>>
    /\ ollamaCalls = 0 /\ upstream = <<>>
    /\ connect = "none" /\ connOpen = FALSE /\ cancelled = FALSE
ScrapeIdle ==
    /\ surls = <<>> /\ sinclude = FALSE /\ spc = "idle"
    /\ sresults = <<>> /\ sscraped = <<>> /\ sstatus = 0
CliIdle ==
    /\ ccmd = "unused" /\ cformatOk = FALSE /\ cinputExists = FALSE
    /\ cfound = 0 /\ cpc = "idle" /\ canswer = "unused" /\ cselected = 0
    /\ coutcome = None /\ cexit = None
ArticleIdle == gfilename = None /\ gpc = "idle" /\ gresult = None

Init ==
    /\ ScrapeIdle /\ CliIdle /\ ArticleIdle
    /\ NormIdle
    /\ WriteIdle
    /\ NameIdle
    /\ AskIdle
    /\ args \in ArgChoices
    /\ inputDirExists \in BOOLEAN
    /\ disk \in IF inputDirExists /\ args.input_files = None
                THEN {S \in SUBSET UnderRoot : Cardinality(S) <= MaxFiles}
                ELSE {{}}
    /\ extraction \in {e \in [Universe -> ExtractionOutcomes] :
                         \A f \in Universe \ Reachable(args, disk) : e[f] = "text"}
    /\ fs \in Preexisting(TargetPaths(args, disk))
    /\ dirs \in IF DOMAIN fs = {} THEN {{}, Prefixes(OutputDir)} ELSE {DirsOf(fs)}
    /\ manifest = None
    /\ pc = "idle"
    /\ html_files = <<>>
    /\ pos = 0
    /\ count = 0
    /\ results = <<>>
    /\ runs = 0
    /\ cleanCalls = <<>>
    /\ raisedAt = {}
    /\ touched = {}
    /\ fsAtCall = fs
    /\ dirsAtCall = dirs
    /\ prev = None
    /\ faults = 0

\* run_batch is called (lines 214-225)
Call ==
    /\ pc \in {"idle", "returned"}
    /\ runs < MaxRuns
    /\ LET st == StartBatch(inputDirExists, dirs, InputDir, OutputDir,
                            args.input_files, disk)
       IN  /\ pc' = IF st.raised THEN "raised" ELSE "loop"
           /\ dirs' = st.dirs
           /\ html_files' = st.html_files
    /\ pos' = 0
    /\ count' = 0
    /\ results' = <<>>
    /\ cleanCalls' = <<>>
    /\ raisedAt' = {}
    /\ touched' = {}
    /\ fsAtCall' = fs
    /\ dirsAtCall' = dirs
    /\ UNCHANGED <<inputDirExists, disk, extraction, fs, manifest, args, runs,
                   prev, faults, nvars, wvars,
                   mvars, avars,
                   svars, cvars, gvars>>

\* one iteration of the for loop (lines 227-266)
ProcessDoc ==
    /\ pc = "loop"
    /\ pos < Len(html_files)
    /\ ~LimitReached(args.limit, count)
    /\ \E io \in IF faults < MaxFaults THEN IOOutcomes ELSE {"ok"} :
         LET html_file == html_files[pos + 1]
             step == ProcessOne(fs, dirs, html_file, args,
                                extraction[html_file], io)
         IN  /\ results' = Append(results, step.result)
             /\ fs' = step.fs
             /\ dirs' = step.dirs
             /\ raisedAt' = IF step.raised THEN raisedAt \cup {pos + 1}
                            ELSE raisedAt
             /\ touched' = IF step.opened
                           THEN touched \cup {[pos |-> pos + 1, path |-> step.target]}
                           ELSE touched
             /\ faults' = IF step.fault THEN faults + 1 ELSE faults
             /\ cleanCalls' = Append(cleanCalls, html_file)
    /\ pos' = pos + 1
    /\ count' = count + 1
    /\ UNCHANGED <<inputDirExists, disk, extraction, manifest, args, pc,
                   html_files, runs, fsAtCall, dirsAtCall, prev, nvars, wvars,
                   mvars, avars,
                   svars, cvars, gvars>>

\* the loop ends or breaks; the manifest is written and the results
\* returned (lines 227-229, 268-282)
Finish ==
    /\ pc = "loop"
    /\ pos >= Len(html_files) \/ LimitReached(args.limit, count)
    /\ manifest' = Some(BuildManifest(results))
    /\ prev' = manifest
    /\ pc' = "returned"
    /\ runs' = runs + 1
    /\ UNCHANGED <<inputDirExists, disk, extraction, fs, dirs, args,
                   html_files, pos, count, results, cleanCalls, raisedAt,
                   touched, fsAtCall, dirsAtCall, faults, nvars, wvars,
                   mvars, avars,
                   svars, cvars, gvars>>

Next == Call \/ ProcessDoc \/ Finish

Spec == Init /\ [][Next]_vars

(***************************************************************************)
(* write_output_text called on its own (as the clean command and the       *)
(* tests call it): one call of the core function or of the one in          *)
(* scripts/html_cleaner.py, on a file system that may hold the target.     *)
(***************************************************************************)
NewText == <<"N", "E", "W", LF>>
WriteTexts == {NewText, OldText}
WriteFormats == {"txt", "markdown", "xml"}

WriteCalls ==
    [text          : WriteTexts,
     output_format : WriteFormats,
     input_file    : Universe,
     overwrite     : BOOLEAN,
     flat_output   : BOOLEAN]

\* the target of the call in scripts/html_cleaner.py (lines 112-114)
ScriptsOutPath(c) ==
    OutPath(c.output_format, InputDir, OutputDir, c.input_file, FALSE)

CoreOutPath(c) ==
    OutPath(c.output_format, InputDir, OutputDir, c.input_file, c.flat_output)

\* the batch runner, unused
BatchIdle ==
    /\ args = None /\ inputDirExists = FALSE /\ disk = {}
    /\ extraction = <<>> /\ manifest = None
    /\ pc = "unused" /\ html_files = <<>> /\ pos = 0 /\ count = 0
    /\ results = <<>> /\ runs = 0 /\ cleanCalls = <<>> /\ raisedAt = {}
    /\ touched = {} /\ fsAtCall = <<>> /\ dirsAtCall = {} /\ prev = None
    /\ faults = 0

WriteInit ==
    /\ ScrapeIdle /\ CliIdle /\ ArticleIdle
    /\ NormIdle
    /\ BatchIdle
    /\ NameIdle
    /\ AskIdle
    /\ wcall \in {Some(c) : c \in WriteCalls}
    /\ fs \in Preexisting({CoreOutPath(wcall[1]), ScriptsOutPath(wcall[1])}
                          \ {NoPath})
    /\ dirs \in IF DOMAIN fs = {} THEN {{}, Prefixes(OutputDir)} ELSE {DirsOf(fs)}
    /\ wfsBefore = fs
    /\ wret = None

\* html_cleaner_core.write_output_text(...)
WriteCall ==
    /\ wcall # None
    /\ wret = None
    /\ \E io \in IOOutcomes :
         LET c == wcall[1]
             w == write_output_text(fs, dirs, c.text, c.output_format, InputDir,
                                    OutputDir, c.input_file, c.overwrite,
                                    c.flat_output, io)
         IN  /\ fs' = w.fs
             /\ dirs' = w.dirs
             /\ wret' = Some([fn |-> "core", io |-> io, raised |-> w.raised,
                              out_path |-> w.out_path])
    /\ UNCHANGED <<wcall, wfsBefore, inputDirExists, disk, extraction, manifest,
                   bvars, nvars,
                   mvars, avars,
                   svars, cvars, gvars>>

\* scripts/html_cleaner.py: write_output_text(...)
ScriptsWriteCall ==
    /\ wcall # None
    /\ wret = None
    /\ \E io \in IOOutcomes :
         LET c == wcall[1]
             w == scripts_write_output_text(fs, dirs, c.text, c.output_format,
                                            InputDir, OutputDir, c.input_file,
                                            c.overwrite, io)
         IN  /\ fs' = w.fs
             /\ dirs' = w.dirs
             /\ wret' = Some([fn |-> "scripts", io |-> io, raised |-> w.raised,
                              out_path |-> w.out_path])
    /\ UNCHANGED <<wcall, wfsBefore, inputDirExists, disk, extraction, manifest,
                   bvars, nvars,
                   mvars, avars,
                   svars, cvars, gvars>>

WriteNext == WriteCall \/ ScriptsWriteCall

WriteSpec == WriteInit /\ [][WriteNext]_vars

(***************************************************************************)
(* The normalizer as a machine: one text in, one normalizer applied.       *)
(***************************************************************************)
MaxTextLen == 6
TextAlphabet == {"a", SP, LF, CR}

RECURSIVE TextsUpTo(_)
TextsUpTo(n) ==
    IF n = 0 THEN {<<>>}
    ELSE LET shorter == TextsUpTo(n - 1) IN
         shorter \cup {Append(t, c) : t \in {u \in shorter : Len(u) = n - 1},
                                      c \in TextAlphabet}

NormInit ==
    /\ ScrapeIdle /\ CliIdle /\ ArticleIdle
    /\ ntext \in TextsUpTo(MaxTextLen)
    /\ nout = <<>>
    /\ npc = "input"
    /\ BatchIdle
    /\ fs = <<>>
    /\ dirs = {}
    /\ WriteIdle
    /\ NameIdle
    /\ AskIdle

NormalizeText ==
    /\ npc = "input"
    /\ nout' = normalize_text(ntext)
    /\ npc' = "text"
    /\ UNCHANGED <<ntext, fvars, bvars, wvars, mvars, avars,
                   svars, cvars, gvars>>

NormalizeMarkdown ==
    /\ npc = "input"
    /\ nout' = normalize_markdown(ntext)
    /\ npc' = "markdown"
    /\ UNCHANGED <<ntext, fvars, bvars, wvars, mvars, avars,
                   svars, cvars, gvars>>

NormNext == NormalizeText \/ NormalizeMarkdown

NormSpec == NormInit /\ [][NormNext]_vars

(***************************************************************************)
(* The news archive (mcp_server/news_server.py): _find_best_article        *)
(***************************************************************************)
\* str.lower(), on the letters of the model
Lower(c) ==
    CASE c = "A" -> "a"
      [] c = "N" -> "n"
      [] c = "X" -> "x"
      [] OTHER -> c
ToLower(s) == [i \in 1..Len(s) |-> Lower(s[i])]

\* string.punctuation (without the grave accent, which no text here contains)
Punctuation == {
    "!", "\"", "#", "$", "%", "&", "'", "(",
    ")", "*", "+", ",", "-", ".", "/", ":",
    ";", "<", "=", ">", "?", "@", "[", "\\",
    "]", "^", "_", "{", "|", "}", "~"}

\* query_lower.translate(str.maketrans('', '', string.punctuation))
RECURSIVE StripPunctuation(_)
StripPunctuation(s) ==
    IF s = <<>> THEN <<>>
    ELSE IF s[1] \in Punctuation THEN StripPunctuation(Tail(s))
         ELSE <<s[1]>> \o StripPunctuation(Tail(s))

\* str.split(): the maximal runs of non-whitespace characters
RECURSIVE SplitWhitespace(_, _)
SplitWhitespace(s, cur) ==
    IF s = <<>> THEN (IF cur = <<>> THEN <<>> ELSE <<cur>>)
    ELSE IF IsSpace(s[1])
         THEN (IF cur = <<>> THEN <<>> ELSE <<cur>>) \o SplitWhitespace(Tail(s), <<>>)
         ELSE SplitWhitespace(Tail(s), Append(cur, s[1]))

stop_words == {
    <<"t", "h", "e">>,
    <<"a">>,
    <<"a", "n">>,
    <<"a", "n", "d">>,
    <<"o", "r">>,
    <<"b", "u", "t">>,
    <<"i", "n">>,
    <<"o", "n">>,
    <<"a", "t">>,
    <<"t", "o">>,
    <<"f", "o", "r">>,
    <<"o", "f">>,
    <<"w", "i", "t", "h">>,
    <<"i", "s">>,
    <<"a", "r", "e">>,
    <<"w", "a", "s">>,
    <<"w", "e", "r", "e">>,
    <<"b", "e">>,
    <<"t", "h", "i", "s">>,
    <<"t", "h", "a", "t">>,
    <<"i", "t">>,
    <<"w", "h", "a", "t">>,
    <<"w", "h", "i", "c", "h">>,
    <<"w", "h", "o">>,
    <<"w", "h", "e", "n">>,
    <<"w", "h", "e", "r", "e">>,
    <<"w", "h", "y">>,
    <<"h", "o", "w">>,
    <<"l", "a", "t", "e", "s", "t">>,
    <<"n", "e", "w", "s">>,
    <<"q", "u", "e", "s", "t", "i", "o", "n">>,
    <<"f", "r", "o", "m">>,
    <<"b", "y">>,
    <<"a", "s">>}

\* [term for term in tokens if term not in stop_words]
RECURSIVE DropStopWords(_)
DropStopWords(tokens) ==
    IF tokens = <<>> THEN <<>>
    ELSE IF tokens[1] \in stop_words THEN DropStopWords(Tail(tokens))
         ELSE <<tokens[1]>> \o DropStopWords(Tail(tokens))

\* (variant: no fall back to the unfiltered tokens)
QueryTermsWithoutFallback(query) ==
    DropStopWords(SplitWhitespace(StripPunctuation(ToLower(query)), <<>>))

\* query_terms as lines 84-101 compute it
QueryTerms(query) ==
    LET query_clean == StripPunctuation(ToLower(query))
        tokens      == SplitWhitespace(query_clean, <<>>)
        filtered    == DropStopWords(tokens)
    IN  IF filtered = <<>> THEN tokens ELSE filtered

\* content.count(term): occurrences that do not overlap, from the left
RECURSIVE CountOccurrences(_, _)
CountOccurrences(content, term) ==
    IF Len(content) < Len(term) THEN 0
    ELSE IF Slice(content, 1, Len(term)) = term
         THEN 1 + CountOccurrences(Slice(content, Len(term) + 1, Len(content)), term)
         ELSE CountOccurrences(Tail(content), term)

\* score += content.count(term), over the terms
RECURSIVE Score(_, _)
Score(content, terms) ==
    IF terms = <<>> THEN 0
    ELSE CountOccurrences(content, terms[1]) + Score(content, Tail(terms))

MdSuffix == <<".", "m", "d">>

\* get_markdown_files(): [] without DATA_DIR, else the *.md files in the
\* order the directory listing gives them
get_markdown_files(exists, order) ==
    IF ~exists THEN <<>>
    ELSE SelectSeq(order, LAMBDA f : EndsWith(f, MdSuffix))

\* (variant: a candidate also replaces the best on an equal score)
ReplacesBestOnTie(score, max_score) == score >= max_score

\* if score > max_score
ReplacesBest(score, max_score) == score > max_score

\* the loop of lines 103-115 over the remaining files
RECURSIVE ScanFiles(_, _, _, _, _, _)
ScanFiles(files, texts, unread, terms, best_file, max_score) ==
    IF files = <<>> THEN best_file
    ELSE LET file_path == files[1] IN
         IF file_path \in unread
         THEN ScanFiles(Tail(files), texts, unread, terms, best_file, max_score)
         ELSE LET score == Score(ToLower(texts[file_path]), terms) IN
              IF ReplacesBest(score, max_score)
              THEN ScanFiles(Tail(files), texts, unread, terms, Some(file_path), score)
              ELSE ScanFiles(Tail(files), texts, unread, terms, best_file, max_score)

find_best_article(query, exists, order, texts, unread) ==
    ScanFiles(get_markdown_files(exists, order), texts, unread,
              QueryTerms(query), None, 0)

(***************************************************************************)
(* _ask_news_logic_stream: the best article is looked up, then either the  *)
(* no-article message is yielded or the completion collaborator is asked   *)
(* and its payload lines are relayed one by one.                           *)
(***************************************************************************)
\* bounds: the length of a question, the files of DATA_DIR, the files whose
\* read fails, the payload lines of one response
MaxQuestionLen == 3
MaxDocs == 2
MaxUnreadable == 1
MaxLines == 2

QuestionAlphabet == {"a", "n", "x", "X", "?", SP}

RECURSIVE QuestionsUpTo(_)
QuestionsUpTo(n) ==
    IF n = 0 THEN {<<>>}
    ELSE LET shorter == QuestionsUpTo(n - 1) IN
         shorter \cup {Append(t, c) : t \in {u \in shorter : Len(u) = n - 1},
                                      c \in QuestionAlphabet}

DocA == <<"a", ".", "m", "d">>
DocB == <<"b", ".", "m", "d">>
\* a file of DATA_DIR that "*.md" does not match
DocC == <<"c", ".", "t", "x", "t">>
DocNames == {DocA, DocB, DocC}

\* what an article may say, and what the other file says
DocTexts == {<<"x">>, <<"X", "x">>, <<"a", "n">>}
OtherText == <<"x", "x", "x">>

Corpora ==
    UNION {{c \in [D -> DocTexts \cup {OtherText}] :
               \A f \in D : (c[f] = OtherText) <=> (f = DocC)} :
           D \in {E \in SUBSET DocNames : Cardinality(E) <= MaxDocs}}

\* every order a directory listing may give the files in
Orders(S) ==
    {o \in [1..Cardinality(S) -> S] : \A i, j \in DOMAIN o : o[i] = o[j] => i = j}

\* the first yield of line 186
NoArticleYieldsNothing == <<>>
NoArticleYields == <<"I couldn't find any relevant news articles to answer your question.">>

ErrProcessing == "Error processing article"
ErrOllama == "Error communicating with Ollama"

\* (variant: a failure of the collaborator yields nothing)
FailureYieldsNothing == <<>>

\* the yield of line 157
FailureYields == <<ErrOllama>>

\* What requests.post / raise_for_status may do: raise, raise on the status,
\* never return (no timeout is passed), or give an open streamed response.
ConnectOutcomes == {"refused", "bad_status", "hangs", "ok"}

\* A line of the response:
\*   "t1", "t2"    {"response": ...}
\*   "t1_done"     {"response": "t1", "done": true}
\*   "done"        {"done": true}
\*   "empty"       an empty keep-alive line
\*   "malformed"   not JSON
\*   "not_object"  JSON, but not an object (a list, a number, a string)
\*   "broken"      the connection breaks: iter_lines raises
\*   "stall"       no line arrives and the connection stays open
LineKinds == {"t1", "t2", "t1_done", "done", "empty", "malformed",
              "not_object", "broken", "stall"}

\* "response" in chunk, chunk["response"]
HasResponse(line) == line \in {"t1", "t2", "t1_done"}
ResponseOf(line) == IF line = "t2" THEN "t2" ELSE "t1"

\* chunk.get("done", False)
IsDone(line) == line \in {"t1_done", "done"}

\* (variant: a token is put in front of the ones yielded before)
RelayedInFront(tokens, line) ==
    IF HasResponse(line) THEN <<ResponseOf(line)>> \o tokens ELSE tokens

\* if "response" in chunk: yield chunk["response"]
Relayed(tokens, line) ==
    IF HasResponse(line) THEN Append(tokens, ResponseOf(line)) ELSE tokens

AskInit ==
    /\ ScrapeIdle /\ CliIdle /\ ArticleIdle
    /\ question \in QuestionsUpTo(MaxQuestionLen)
    /\ dataDirExists \in BOOLEAN
    /\ corpus \in IF dataDirExists THEN Corpora ELSE {<<>>}
    /\ listing \in Orders(DOMAIN corpus)
    /\ unreadable \in {U \in SUBSET (DOMAIN corpus) : Cardinality(U) <= MaxUnreadable}
    /\ apc = "input"
    /\ query_terms = <<>>
    /\ article_path = None
    /\ stream = <<>>
    /\ ollamaCalls = 0
    /\ upstream = <<>>
    /\ connect = "none"
    /\ connOpen = FALSE
    /\ cancelled = FALSE
    /\ NormIdle
    /\ BatchIdle
    /\ fs = <<>>
    /\ dirs = {}
    /\ WriteIdle
    /\ NameIdle

\* the generator runs from its start to its first yield, or to the request
\* to the collaborator (lines 184-203 and 143-144)
AskStart ==
    /\ apc = "input"
    /\ LET best == find_best_article(question, dataDirExists, listing, corpus,
                                     unreadable)
       IN  /\ query_terms' = QueryTerms(question)
           /\ article_path' = best
           /\ IF best = None
              THEN /\ stream' = NoArticleYields
                   /\ apc' = "last"
                   /\ UNCHANGED <<ollamaCalls, connect, connOpen>>
              ELSE \E outcome \in {"read_fails"} \cup ConnectOutcomes :
                     CASE outcome = "read_fails" ->
                            /\ stream' = <<ErrProcessing>>
                            /\ apc' = "last"
                            /\ UNCHANGED <<ollamaCalls, connect, connOpen>>
                       [] outcome \in {"refused", "bad_status"} ->
                            /\ ollamaCalls' = ollamaCalls + 1
                            /\ connect' = outcome
                            /\ stream' = FailureYields
                            /\ apc' = "last"
                            /\ UNCHANGED connOpen
                       [] outcome = "hangs" ->
                            /\ ollamaCalls' = ollamaCalls + 1
                            /\ connect' = outcome
                            /\ stream' = <<>>
                            /\ apc' = "blocked"
                            /\ UNCHANGED connOpen
                       [] outcome = "ok" ->
                            /\ ollamaCalls' = ollamaCalls + 1
                            /\ connect' = outcome
                            /\ stream' = <<>>
                            /\ apc' = "relay"
                            /\ connOpen' = TRUE
    /\ UNCHANGED <<question, dataDirExists, corpus, listing, unreadable,
                   upstream, cancelled, nvars, fvars, bvars, wvars, mvars,
                   svars, cvars, gvars>>

\* one line of the response is read and handled (lines 146-157)
RelayLine ==
    /\ apc = "relay"
    /\ Len(upstream) < MaxLines
    /\ \E line \in LineKinds :
         /\ upstream' = Append(upstream, line)
         /\ CASE line = "stall" ->
                   /\ stream' = stream
                   /\ apc' = "blocked"
                   /\ UNCHANGED connOpen
              [] line \in {"empty", "malformed"} ->
                   /\ stream' = stream
                   /\ apc' = "relay"
                   /\ UNCHANGED connOpen
              [] line \in {"not_object", "broken"} ->
                   /\ stream' = stream \o FailureYields
                   /\ apc' = "last"
                   /\ connOpen' = FALSE
              [] OTHER ->
                   /\ stream' = Relayed(stream, line)
                   /\ apc' = IF IsDone(line) THEN "last" ELSE "relay"
                   /\ UNCHANGED connOpen
    /\ UNCHANGED <<question, dataDirExists, corpus, listing, unreadable,
                   query_terms, article_path, ollamaCalls, connect, cancelled,
                   nvars, fvars, bvars, wvars, mvars,
                   svars, cvars, gvars>>

\* the response has no more lines: the loop and the generator end
StreamExhausted ==
    /\ apc = "relay"
    /\ apc' = "ended"
    /\ connOpen' = FALSE
    /\ UNCHANGED <<question, dataDirExists, corpus, listing, unreadable,
                   query_terms, article_path, stream, ollamaCalls, upstream,
                   connect, cancelled, nvars, fvars, bvars, wvars, mvars,
                   svars, cvars, gvars>>

\* the caller resumes the generator after its last yield: it returns
StreamReturn ==
    /\ apc = "last"
    /\ apc' = "ended"
    /\ connOpen' = FALSE
    /\ UNCHANGED <<question, dataDirExists, corpus, listing, unreadable,
                   query_terms, article_path, stream, ollamaCalls, upstream,
                   connect, cancelled, nvars, fvars, bvars, wvars, mvars,
                   svars, cvars, gvars>>

\* The caller stops consuming while the response is open (web_ui.ask_stream:
\* the client of the StreamingResponse disconnects).  Nothing closes the
\* response: event_generator and the two generators under it have no
\* finally or with block, and are simply never resumed.
Cancel ==
    /\ apc \in {"relay", "last", "blocked"}
    /\ connOpen
    /\ ~cancelled
    /\ cancelled' = TRUE
    /\ apc' = "abandoned"
    /\ UNCHANGED <<question, dataDirExists, corpus, listing, unreadable,
                   query_terms, article_path, stream, ollamaCalls, upstream,
                   connect, connOpen, nvars, fvars, bvars, wvars, mvars,
                   svars, cvars, gvars>>

\* the abandoned generator is garbage collected at some later time, and the
\* response with it
Collect ==
    /\ cancelled
    /\ connOpen
    /\ connOpen' = FALSE
    /\ UNCHANGED <<question, dataDirExists, corpus, listing, unreadable, apc,
                   query_terms, article_path, stream, ollamaCalls, upstream,
                   connect, cancelled, nvars, fvars, bvars, wvars, mvars,
                   svars, cvars, gvars>>

AskNext ==
    AskStart \/ RelayLine \/ StreamExhausted \/ StreamReturn \/ Cancel \/ Collect

AskSpec == AskInit /\ [][AskNext]_vars

\* One question that finds its article, for following the stream to its end.
\* The generator's own steps are taken when they can be: a line that has
\* arrived is read, a generator that is resumed runs on.
StreamInit ==
    /\ AskInit
    /\ question = <<"x">>
    /\ dataDirExists
    /\ DOMAIN corpus = {DocA}
    /\ unreadable = {}

StreamFairSpec ==
    /\ StreamInit
    /\ [][AskNext]_vars
    /\ WF_vars(AskStart \/ RelayLine \/ StreamExhausted \/ StreamReturn)

(***************************************************************************)
(* make_flat_filename called on its own: a name for each of two relative   *)
(* paths, then the first one again.                                        *)
(***************************************************************************)
\* the pair of test_make_flat_filename_collision_safety
RelDeepHtml == << <<"a">>, <<"b">>, <<"f", "i", "l", "e", ".", "h", "t", "m", "l">> >>
RelDeepHtm == << <<"a">>, <<"b">>, <<"f", "i", "l", "e", ".", "h", "t", "m">> >>
\* two paths with the same joined base a__b
RelNested == << <<"a">>, <<"b", ".", "h", "t", "m", "l">> >>
RelUnderscored == << <<"a", "_", "_", "b", ".", "h", "t", "m", "l">> >>
\* the paths of test_make_flat_filename
RelArticle == << <<"n", "e", "w", "s">>, <<"a", "r", "t", "i", "c", "l", "e", ".", "h", "t", "m", "l">> >>
RelArticle2 == << <<"n", "e", "w", "s">>, <<"a", "r", "t", "i", "c", "l", "e", "2", ".", "h", "t", "m", "l">> >>
\* a dot in a directory segment, none in the file name
RelDottedDir == << <<"v", "1", ".", "2">>, <<"R", "E", "A", "D", "M", "E">> >>
\* no dot at all
RelNoDot == << <<"R", "E", "A", "D", "M", "E">> >>
\* a dot in a directory segment and an extension
RelDottedDirHtml == << <<"a", ".", "b">>, <<"c", ".", "h", "t", "m", "l">> >>
\* two dots in the file name
RelTwoDots == << <<"a", ".", "t", "a", "r", ".", "g", "z">> >>
\* two paths with the same base whose md5 digests share the first 8 hex digits
RelClashA == << <<"a", ".", "7", "s", "f">> >>
RelClashB == << <<"a", ".", "a", "i", "t", "3">> >>

RelativePaths == {RelDeepHtml,
                  RelDeepHtm,
                  RelNested,
                  RelUnderscored,
                  RelArticle,
                  RelArticle2,
                  RelDottedDir,
                  RelNoDot,
                  RelDottedDirHtml,
                  RelTwoDots,
                  RelClashA,
                  RelClashB}

NameInit ==
    /\ ScrapeIdle /\ CliIdle /\ ArticleIdle
    /\ mpaths \in RelativePaths \X RelativePaths
    /\ mformat \in WriteFormats
    /\ mnames = <<>>
    /\ NormIdle
    /\ BatchIdle
    /\ fs = <<>>
    /\ dirs = {}
    /\ WriteIdle
    /\ AskIdle

\* make_flat_filename(p1, f)
FlatNameFirst ==
    /\ mpaths # <<>>
    /\ Len(mnames) = 0
    /\ mnames' = <<make_flat_filename(mpaths[1], mformat)>>
    /\ UNCHANGED <<mpaths, mformat, nvars, fvars, bvars, wvars, avars,
                   svars, cvars, gvars>>

\* make_flat_filename(p2, f)
FlatNameSecond ==
    /\ Len(mnames) = 1
    /\ mnames' = Append(mnames, make_flat_filename(mpaths[2], mformat))
    /\ UNCHANGED <<mpaths, mformat, nvars, fvars, bvars, wvars, avars,
                   svars, cvars, gvars>>

\* make_flat_filename(p1, f), a second time
FlatNameAgain ==
    /\ Len(mnames) = 2
    /\ mnames' = Append(mnames, make_flat_filename(mpaths[1], mformat))
    /\ UNCHANGED <<mpaths, mformat, nvars, fvars, bvars, wvars, avars,
                   svars, cvars, gvars>>

NameNext == FlatNameFirst \/ FlatNameSecond \/ FlatNameAgain

NameSpec == NameInit /\ [][NameNext]_vars

(***************************************************************************)
(* POST /batch-scrape: the body of batch_scrape_articles, as it runs for a *)
(* request that passed validation and authentication                       *)
(***************************************************************************)
MaxUrls == 3

Urls == {"u1", "u2"}

\* what scrape_article_with_trafilatura does for one URL: it returns
\* (article_data, text), it returns (None, message), or it raises
ScrapeOutcomes == {"data", "none", "raises"}

RECURSIVE UrlListsUpTo(_)
UrlListsUpTo(n) ==
    IF n = 0 THEN {<<>>}
    ELSE LET shorter == UrlListsUpTo(n - 1) IN
         shorter \cup {Append(l, u) : l \in {k \in shorter : Len(k) = n - 1},
                                      u \in Urls}

\* (variant: a scrape without data is reported as a success)
ResultForNoneAsSuccess(url, outcome, include_raw_text) ==
    CASE outcome = "raises" ->
             [success |-> FALSE, data |-> None, text_content |-> None,
              error |-> Some("Error scraping URL"), url |-> url]
      [] OTHER ->
             [success |-> TRUE,
              data |-> IF outcome = "data" THEN Some(url) ELSE None,
              text_content |-> IF include_raw_text THEN Some(url) ELSE None,
              error |-> None, url |-> url]

\* the entry appended to results for one URL; the article data and the text
\* of a URL are written as the URL itself
ResultFor(url, outcome, include_raw_text) ==
    CASE outcome = "data" ->
             [success |-> TRUE, data |-> Some(url),
              text_content |-> IF include_raw_text THEN Some(url) ELSE None,
              error |-> None, url |-> url]
      [] outcome = "none" ->
             [success |-> FALSE, data |-> None, text_content |-> None,
              error |-> Some("Scraping failed"), url |-> url]
      [] OTHER ->
             [success |-> FALSE, data |-> None, text_content |-> None,
              error |-> Some("Error scraping URL"), url |-> url]

ScrapeInit ==
    /\ NormIdle /\ BatchIdle /\ WriteIdle /\ NameIdle /\ AskIdle
    /\ CliIdle /\ ArticleIdle
    /\ fs = <<>> /\ dirs = {}
    /\ surls \in UrlListsUpTo(MaxUrls)
    /\ sinclude \in BOOLEAN
    /\ spc = "request"
    /\ sresults = <<>>
    /\ sscraped = <<>>
    /\ sstatus = 0

\* results = []
BatchScrapeStart ==
    /\ spc = "request"
    /\ spc' = "loop"
    /\ sresults' = <<>>
    /\ UNCHANGED <<surls, sinclude, sscraped, sstatus, nvars, fvars, bvars,
                   wvars, mvars, avars, cvars, gvars>>

\* one turn of: for url in request.urls
ScrapeUrl ==
    /\ spc = "loop"
    /\ Len(sresults) < Len(surls)
    /\ \E outcome \in ScrapeOutcomes :
          /\ sresults' = Append(sresults,
                 ResultFor(surls[Len(sresults) + 1], outcome, sinclude))
          /\ sscraped' = Append(sscraped, outcome)
    /\ UNCHANGED <<surls, sinclude, spc, sstatus, nvars, fvars, bvars,
                   wvars, mvars, avars, cvars, gvars>>

\* return results: the framework answers 200 with the list
BatchScrapeReturn ==
    /\ spc = "loop"
    /\ Len(sresults) = Len(surls)
    /\ spc' = "returned"
    /\ sstatus' = 200
    /\ UNCHANGED <<surls, sinclude, sresults, sscraped, nvars, fvars, bvars,
                   wvars, mvars, avars, cvars, gvars>>

ScrapeNext == BatchScrapeStart \/ ScrapeUrl \/ BatchScrapeReturn

ScrapeSpec == ScrapeInit /\ [][ScrapeNext]_vars

(***************************************************************************)
(* The html-cleaner commands batch, select and default, up to the exit     *)
(* status of the process                                                   *)
(***************************************************************************)
MaxCliFiles == 3

Commands == {"batch", "select", "default"}

\* what the checkbox prompt of select does: .ask() returns None, returns [],
\* returns a non-empty selection, is interrupted from the keyboard, or raises
PromptAnswers == {"none", "empty", "some", "interrupt", "raises"}

\* what a block of statements ends with
NoExc == [kind |-> "none", code |-> 0]
ExitExc(code) == [kind |-> "Exit", code |-> code]
ErrorExc == [kind |-> "Error", code |-> 0]
InterruptExc == [kind |-> "KeyboardInterrupt", code |-> 0]

\* except Exception: typer.Exit is click's Exit, a RuntimeError, so the
\* clause takes it as it takes any error; KeyboardInterrupt is a
\* BaseException and passes
CaughtByExceptException(exc) == exc.kind \in {"Exit", "Error"}

\* try: selected = ....ask(); if not selected: raise typer.Exit(0)
\* except KeyboardInterrupt: raise typer.Exit(0)
\* except Exception: raise typer.Exit(2)
PromptBlock(answer) ==
    LET raised == CASE answer = "interrupt" -> InterruptExc
                    [] answer = "raises" -> ErrorExc
                    [] answer \in {"none", "empty"} -> ExitExc(0)
                    [] OTHER -> NoExc
    IN  CASE raised.kind = "KeyboardInterrupt" -> ExitExc(0)
          [] CaughtByExceptException(raised) -> ExitExc(2)
          [] OTHER -> raised

\* try: results = run_batch(...); ...; raise typer.Exit(0 if failed == 0 else 1)
\* except Exception: raise typer.Exit(2)
RunBlock(raises, failed) ==
    LET raised == IF raises THEN ErrorExc
                  ELSE ExitExc(IF failed = 0 THEN 0 ELSE 1)
    IN  IF CaughtByExceptException(raised) THEN ExitExc(2) ELSE raised

CliInit ==
    /\ NormIdle /\ BatchIdle /\ WriteIdle /\ NameIdle /\ AskIdle
    /\ ScrapeIdle /\ ArticleIdle
    /\ fs = <<>> /\ dirs = {}
    /\ ccmd \in Commands
    /\ cformatOk \in BOOLEAN
    /\ cinputExists \in BOOLEAN
    /\ cfound \in 0..MaxCliFiles
    /\ cpc = "start"
    /\ canswer = "unused"
    /\ cselected = 0
    /\ coutcome = None
    /\ cexit = None

\* the checks in front of the run: the format, the input directory and, in
\* select, the list of HTML files
CliCheck ==
    /\ cpc = "start"
    /\ IF ~cformatOk \/ ~cinputExists
       THEN cexit' = Some(1) /\ cpc' = "exited" /\ UNCHANGED cselected
       ELSE IF ccmd = "select" /\ cfound = 0
       THEN cexit' = Some(0) /\ cpc' = "exited" /\ UNCHANGED cselected
       ELSE IF ccmd = "select"
       THEN cpc' = "prompt" /\ UNCHANGED <<cexit, cselected>>
       ELSE cpc' = "run" /\ cselected' = cfound /\ UNCHANGED cexit
    /\ UNCHANGED <<ccmd, cformatOk, cinputExists, cfound, canswer, coutcome,
                   nvars, fvars, bvars, wvars, mvars, avars, svars, gvars>>

\* the interactive selector of select
CliPrompt ==
    /\ cpc = "prompt"
    /\ \E answer \in PromptAnswers :
          /\ canswer' = answer
          /\ IF PromptBlock(answer) = NoExc
             THEN /\ cpc' = "run"
                  /\ cselected' \in 1..cfound
                  /\ UNCHANGED cexit
             ELSE /\ cpc' = "exited"
                  /\ cexit' = Some(PromptBlock(answer).code)
                  /\ UNCHANGED cselected
    /\ UNCHANGED <<ccmd, cformatOk, cinputExists, cfound, coutcome,
                   nvars, fvars, bvars, wvars, mvars, avars, svars, gvars>>

\* the run_batch call and the exit code computed from its results
CliRun ==
    /\ cpc = "run"
    /\ \E raises \in BOOLEAN, failed \in 0..cselected :
          /\ raises => failed = 0
          /\ coutcome' = Some([raises |-> raises, failed |-> failed])
          /\ cexit' = Some(RunBlock(raises, failed).code)
    /\ cpc' = "exited"
    /\ UNCHANGED <<ccmd, cformatOk, cinputExists, cfound, canswer, cselected,
                   nvars, fvars, bvars, wvars, mvars, avars, svars, gvars>>

CliNext == CliCheck \/ CliPrompt \/ CliRun

CliSpec == CliInit /\ [][CliNext]_vars

(***************************************************************************)
(* get_article: reading one article of the data directory by its filename  *)
(***************************************************************************)
MaxSegments == 3

\* absolute paths are sequences of segments from the root
DATA_DIR == <<"srv", "data">>

ArticleDirs == {<<>>, <<"srv">>, DATA_DIR, DATA_DIR \o <<"sub">>}

ArticleFiles ==
    (DATA_DIR \o <<"a.md">>) :> "A" @@
    (DATA_DIR \o <<"sub", "b.md">>) :> "B" @@
    <<"srv", "secret.md">> :> "SECRET"

Segments == {"..", "a.md", "sub", "b.md", "secret.md", "srv", "data"}

RECURSIVE SegmentsUpTo(_)
SegmentsUpTo(n) ==
    IF n = 0 THEN {<<>>}
    ELSE LET shorter == SegmentsUpTo(n - 1) IN
         shorter \cup {Append(p, g) : p \in {q \in shorter : Len(q) = n - 1},
                                      g \in Segments}

Filenames == [abs : BOOLEAN, segs : SegmentsUpTo(MaxSegments) \ {<<>>}]

\* DATA_DIR / filename: an absolute right operand replaces the left one, and
\* ".." segments stay in the path
UnderDataDir(filename) ==
    IF filename.abs THEN filename.segs ELSE DATA_DIR \o filename.segs

\* where the operating system arrives when it follows a path from the root:
\* Some(location), or None when a segment is taken from what is no directory
RECURSIVE Walk(_, _)
Walk(cur, rest) ==
    IF rest = <<>> THEN Some(cur)
    ELSE IF cur \notin ArticleDirs THEN None
    ELSE Walk(CASE Head(rest) # ".." -> Append(cur, Head(rest))
                [] cur = <<>> -> <<>>    \* the parent of the root is the root
                [] OTHER -> Parent(cur),
              Tail(rest))

Located(path) == Walk(<<>>, path)

\* Path.exists()
PathExists(path) ==
    /\ Located(path) # None
    /\ Located(path)[1] \in ArticleDirs \cup DOMAIN ArticleFiles

\* path.relative_to(base) does not raise: base is a prefix of the segments of
\* path as they are written
IsRelativeTo(path, base) ==
    /\ Len(path) >= Len(base)
    /\ Slice(path, 1, Len(base)) = base

get_article_logic(filename) ==
    LET file_path == UnderDataDir(filename) IN
    IF ~PathExists(file_path)
    THEN [raised |-> "FileNotFoundError", content |-> ""]
    ELSE IF ~IsRelativeTo(file_path, DATA_DIR)
    THEN [raised |-> "ValueError", content |-> ""]
    ELSE IF Located(file_path)[1] \in ArticleDirs
    THEN [raised |-> "IsADirectoryError", content |-> ""]
    ELSE [raised |-> NoValue, content |-> ArticleFiles[Located(file_path)[1]]]

ArticleInit ==
    /\ NormIdle /\ BatchIdle /\ WriteIdle /\ NameIdle /\ AskIdle
    /\ ScrapeIdle /\ CliIdle
    /\ fs = <<>> /\ dirs = {}
    /\ gfilename \in Filenames
    /\ gpc = "input"
    /\ gresult = None

GetArticle ==
    /\ gpc = "input"
    /\ gresult' = Some(get_article_logic(gfilename))
    /\ gpc' = "done"
    /\ UNCHANGED <<gfilename, nvars, fvars, bvars, wvars, mvars, avars,
                   svars, cvars>>

ArticleNext == GetArticle

ArticleSpec == ArticleInit /\ [][ArticleNext]_vars

(***************************************************************************)
(* Properties                                                              *)
(***************************************************************************)
Min(a, b) == IF a <= b THEN a ELSE b

\* how many files a run processes: min(limit, n), or n without a limit
Processed ==
    IF args.limit = None THEN Len(html_files)
    ELSE Min(args.limit[1], Len(html_files))

\* the target path of an input file under the arguments of the run
Target(f) == OutPath(args.output_format, InputDir, OutputDir, f, args.flat_output)

\* the step taken is one iteration of the loop of run_batch
LoopStep == pc = "loop" /\ pos' = pos + 1

\* 3 (resp. 4) consecutive newlines somewhere in t
HasNewlineRun(t, n) ==
    \E i \in 1..(Len(t) - n + 1) : \A k \in 0..(n - 1) : t[i + k] = LF

(* C1: when run_batch has returned, the manifest written to manifest.json   *)
(* has total = ok + failed = number of entries of results, and its results *)
(* are the returned list.                                                  *)
C1_ManifestTotals ==
    pc = "returned" =>
        /\ manifest # None
        /\ manifest[1].total = manifest[1].ok + manifest[1].failed
        /\ manifest[1].total = Len(manifest[1].results)
        /\ manifest[1].results = results

\* a run has returned with successes and failures mixed
C1_Witness ==
    /\ pc = "returned"
    /\ manifest # None
    /\ manifest[1].ok >= 1
    /\ manifest[1].failed >= 1

\* the outcomes of a run, one per processed file, in sorted order, failed
\* exactly where the try block raised
OutcomesIsolated ==
    pc = "returned" =>
        /\ Len(results) = Processed
        /\ \A i, j \in 1..Len(html_files) :
              i < j => ~PathLess(html_files[j], html_files[i])
        /\ \A i \in 1..Len(results) :
              /\ results[i].input_path = html_files[i]
              /\ results[i].ok = (i \notin raisedAt)
              /\ ~results[i].ok =>
                    /\ results[i].output_path = NoPath
                    /\ results[i].error # NoValue

(* C2: partial-failure isolation: whatever files fail in conversion or in   *)
(* writing, every later file is still processed, results holds one outcome *)
(* per processed file in sorted order, ok = false (no output path, an      *)
(* error) exactly for the failing files, and no output file is written in  *)
(* this run for a failing file.                                            *)
C2_FailureIsolation ==
    /\ OutcomesIsolated
    /\ pc = "returned" => \A t \in touched : t.pos \notin raisedAt

(* C3: a second run with the same arguments, overwrite = false and          *)
(* unchanged inputs, on the output directory the first run left, changes   *)
(* no output file and gives the same manifest totals (no file-system call  *)
(* failing in either run).                                                 *)
C3_Idempotent ==
    (pc = "returned" /\ prev # None /\ ~args.overwrite /\ faults = 0) =>
        /\ fs = fsAtCall
        /\ manifest[1].total = prev[1].total
        /\ manifest[1].ok = prev[1].ok
        /\ manifest[1].failed = prev[1].failed

\* a second run has returned, over files the first run wrote and files that
\* failed
C3_Witness ==
    /\ pc = "returned" /\ prev # None /\ ~args.overwrite /\ faults = 0
    /\ manifest[1].ok >= 1
    /\ manifest[1].failed >= 1
    /\ \E p \in DOMAIN fs : fs[p] # OldText /\ fs[p] # <<>>

\* the file being processed has a non-empty output file and overwrite is off
SkipCase ==
    /\ LoopStep
    /\ ~args.overwrite
    /\ Target(html_files[pos + 1]) \in DOMAIN fs
    /\ Len(fs[Target(html_files[pos + 1])]) > 0

(* C4, as claimed: with overwrite off and a non-empty output file in        *)
(* place, the runner skips the file entirely: the extraction collaborator  *)
(* is not invoked for it.                                                  *)
C4_SkipsExtraction ==
    [][SkipCase => cleanCalls' = cleanCalls]_vars

(* C4, amended: with overwrite off and a non-empty output file in place,    *)
(* the runner leaves every output file as it is and, when the conversion   *)
(* succeeds, reports the existing path; but clean_html_file is still       *)
(* called on the file, and a file whose conversion fails is reported as    *)
(* failed although its output exists.                                      *)
C4_KeepsFileButExtracts ==
    [][SkipCase =>
         LET f == html_files[pos + 1]
             r == results'[pos + 1]
         IN  /\ fs' = fs
             /\ cleanCalls' = Append(cleanCalls, f)
             /\ extraction[f] = "text" => r.ok /\ r.output_path = Target(f)
             /\ extraction[f] # "text" => ~r.ok /\ r.output_path = NoPath
    ]_vars

\* a file was converted again although its old, non-empty output was kept
C4_Witness ==
    /\ pc \in {"loop", "returned"}
    /\ ~args.overwrite
    /\ \E i \in 1..Len(results) :
          /\ results[i].ok
          /\ results[i].output_path \in DOMAIN fsAtCall
          /\ fsAtCall[results[i].output_path] = OldText
          /\ fs[results[i].output_path] = OldText
          /\ cleanCalls[i] = html_files[i]

\* the target of the call of write_output_text that was made
WTarget ==
    IF wret[1].fn = "core" THEN CoreOutPath(wcall[1]) ELSE ScriptsOutPath(wcall[1])

\* the call found its target in place
WTargetExisted == WTarget # NoPath /\ WTarget \in DOMAIN wfsBefore

(* C5: write_output_text with overwrite = false on a target that holds a    *)
(* non-empty file leaves the file as it is and returns its path, whatever  *)
(* the text, in flat and in legacy mode (and in scripts/html_cleaner.py).  *)
C5_KeepsNonEmpty ==
    (/\ wret # None
     /\ ~wcall[1].overwrite
     /\ WTargetExisted
     /\ Len(wfsBefore[WTarget]) > 0)
    => /\ ~wret[1].raised
       /\ wret[1].out_path = WTarget
       /\ fs = wfsBefore

\* the core function kept a file, in legacy mode, that differs from the text
C5_Witness ==
    /\ wret # None
    /\ wret[1].fn = "core"
    /\ ~wcall[1].overwrite
    /\ ~wcall[1].flat_output
    /\ WTargetExisted
    /\ wfsBefore[WTarget] = OldText
    /\ wcall[1].text = NewText
    /\ fs[WTarget] = OldText

(* C6, as claimed: with overwrite = false and a target that exists but is   *)
(* empty, or whose stat fails, the file is left as it was and the existing *)
(* path is reported.                                                       *)
C6_KeepsEmpty ==
    (/\ wret # None
     /\ ~wcall[1].overwrite
     /\ WTargetExisted
     /\ (wfsBefore[WTarget] = <<>> \/ wret[1].io = "stat_fails"))
    => /\ ~wret[1].raised
       /\ wret[1].out_path = WTarget
       /\ fs = wfsBefore

(* C6, amended: with overwrite = false and an existing target, a failing    *)
(* stat leaves the file as it was and reports the existing path; an empty  *)
(* target whose stat succeeds is not kept: it is written with the new text *)
(* and its path returned, unless the write itself fails.                   *)
C6_EmptyIsRewritten ==
    (/\ wret # None
     /\ ~wcall[1].overwrite
     /\ WTargetExisted)
    => /\ wret[1].io = "stat_fails" =>
             /\ ~wret[1].raised
             /\ wret[1].out_path = WTarget
             /\ fs = wfsBefore
       /\ (wfsBefore[WTarget] = <<>> /\ wret[1].io = "ok") =>
             /\ ~wret[1].raised
             /\ wret[1].out_path = WTarget
             /\ fs[WTarget] = wcall[1].text
       /\ (wfsBefore[WTarget] = <<>>
           /\ wret[1].io \in {"open_fails", "write_fails"}) =>
             /\ wret[1].raised
             /\ fs[WTarget] = <<>>

\* an empty target was written although overwrite was off
C6_Witness ==
    /\ wret # None
    /\ ~wcall[1].overwrite
    /\ WTargetExisted
    /\ wfsBefore[WTarget] = <<>>
    /\ wret[1].io = "ok"
    /\ fs[WTarget] = NewText

(* C7: write_output_text with overwrite = true, when it returns, has        *)
(* written the text: the file at the returned path holds exactly the text  *)
(* passed in, whatever was there before.                                   *)
C7_OverwriteWrites ==
    (wret # None /\ wcall[1].overwrite /\ ~wret[1].raised)
    => /\ wret[1].out_path = WTarget
       /\ wret[1].out_path \in DOMAIN fs
       /\ fs[wret[1].out_path] = wcall[1].text

\* a non-empty file with another content was replaced, in flat mode
C7_Witness ==
    /\ wret # None
    /\ wret[1].fn = "core"
    /\ wcall[1].overwrite
    /\ wcall[1].flat_output
    /\ ~wret[1].raised
    /\ WTargetExisted
    /\ wfsBefore[WTarget] = OldText
    /\ fs[WTarget] = NewText

(* C8: with limit = L >= 0 and n sorted candidates, run_batch processes     *)
(* exactly the first min(L, n) of them in sorted order; the others are     *)
(* neither converted nor written nor reported, and the manifest total is   *)
(* min(L, n); without a limit all n are processed.                         *)
C8_Limit ==
    pc = "returned" =>
        /\ \A i, j \in 1..Len(html_files) :
              i < j => ~PathLess(html_files[j], html_files[i])
        /\ Len(results) = Processed
        /\ manifest[1].total = Processed
        /\ \A i \in 1..Processed : results[i].input_path = html_files[i]
        /\ cleanCalls = Slice(html_files, 1, Processed)
        /\ \A t \in touched : t.pos <= Processed

\* the limit cut a run short
C8_Witness ==
    /\ pc = "returned"
    /\ args.limit = Some(1)
    /\ Len(html_files) = 2
    /\ Len(results) = 1
    /\ results[1].ok

(* C9: when the input root does not exist, run_batch raises before any      *)
(* file is processed: no output directory is created, no output file and   *)
(* no manifest.json is written.                                            *)
C9_MissingInputRoot ==
    ~inputDirExists =>
        /\ pc \in {"idle", "raised"}
        /\ fs = fsAtCall
        /\ dirs = dirsAtCall
        /\ manifest = None
        /\ results = <<>>
        /\ cleanCalls = <<>>

\* the call has raised and there is no output directory
C9_Witness ==
    /\ pc = "raised"
    /\ ~inputDirExists
    /\ OutputDir \notin dirs

(* C10, as claimed: the output of normalize_text never contains 3 or more   *)
(* consecutive newline characters.                                         *)
C10_NoThreeNewlines ==
    npc = "text" => ~HasNewlineRun(nout, 3)

(* C10, amended: the output of normalize_text never contains 4 or more      *)
(* consecutive newline characters (3 in a row, that is two empty lines,    *)
(* are kept).                                                              *)
C10_NoFourNewlines ==
    npc = "text" => ~HasNewlineRun(nout, 4)

\* four newlines in a row were cut down to three
C10_Witness ==
    /\ npc = "text"
    /\ HasNewlineRun(ntext, 4)
    /\ HasNewlineRun(nout, 3)

(***************************************************************************)
(* Blank lines of a text, counted without the normalizer                   *)
(***************************************************************************)
\* the lines of t once CRLF and CR are line ends like LF
LinesOf(t) == SplitLF(ReplaceCR(ReplaceCRLF(t)), <<>>)

\* empty or whitespace-only
IsBlankLine(ln) == \A i \in 1..Len(ln) : IsSpace(ln[i])

\* the positions of the non-blank lines
NonBlank(lines) == {i \in 1..Len(lines) : ~IsBlankLine(lines[i])}

\* the k-th smallest member of a set of numbers
Nth(S, k) == CHOOSE i \in S : Cardinality({j \in S : j < i}) = k - 1

\* how many blank lines lie between each non-blank line and the next one
Gaps(lines) ==
    LET nb == NonBlank(lines) IN
    [k \in 1..(Cardinality(nb) - 1) |-> Nth(nb, k + 1) - Nth(nb, k) - 1]

(* C11: the output of normalize_text never has 4 newlines in a row; a run   *)
(* of 3 or more blank or whitespace-only lines between two non-blank lines *)
(* becomes exactly 2 empty lines, and a run of 1 or 2 blank lines keeps    *)
(* its length.                                                             *)
C11_BlankRunsCapped ==
    npc = "text" =>
        LET gin  == Gaps(LinesOf(ntext))
            gout == Gaps(SplitLF(nout, <<>>))
        IN  /\ ~HasNewlineRun(nout, 4)
            /\ Len(gout) = Len(gin)
            /\ \A k \in 1..Len(gin) : gout[k] = Min(gin[k], 2)
            /\ \A i \in 1..Len(SplitLF(nout, <<>>)) :
                  IsBlankLine(SplitLF(nout, <<>>)[i]) => SplitLF(nout, <<>>)[i] = <<>>

\* three blank lines between two non-blank lines came out as two
C11_Witness ==
    /\ npc = "text"
    /\ \E k \in 1..Len(Gaps(LinesOf(ntext))) :
          /\ Gaps(LinesOf(ntext))[k] >= 3
          /\ Gaps(SplitLF(nout, <<>>))[k] = 2

(* C12: normalize_markdown is idempotent: applied to its own output it     *)
(* returns that output, for every input (empty, whitespace-only, CR and    *)
(* CRLF line endings included).                                            *)
C12_MarkdownIdempotent ==
    npc = "markdown" => normalize_markdown(nout) = nout

\* an input with a CR and surrounding whitespace, which the first pass changed
C12_Witness ==
    /\ npc = "markdown"
    /\ \E i \in 1..Len(ntext) : ntext[i] = CR
    /\ ntext # <<>> /\ IsSpace(ntext[1])
    /\ nout # ntext
    /\ Len(nout) >= 2

\* s without its trailing newlines
RECURSIVE DropTrailingLF(_)
DropTrailingLF(s) ==
    IF s # <<>> /\ s[Len(s)] = LF THEN DropTrailingLF(Slice(s, 1, Len(s) - 1)) ELSE s

HexDigits == {"0", "1", "2", "3", "4", "5", "6", "7", "8", "9",
              "a", "b", "c", "d", "e", "f"}

\* a file name without its last extension (unchanged when it has no dot)
StemOf(name) ==
    IF LastDot(name) > 0 THEN Slice(name, 1, LastDot(name) - 1) ELSE name

\* d1__...__dk__s: the directory segments whole, then the stem of the file name
SegmentsAndStem(path) ==
    Join(<<"_", "_">>, Slice(path, 1, Len(path) - 1) \o <<StemOf(path[Len(path)])>>)

\* the segments joined by "__", cut before the last dot of the joined string
JoinedBase(path) == StemOf(Join(<<"_", "_">>, path))

(* C14, as claimed: two distinct relative paths never get the same flat    *)
(* name under the same output format, and a repeated call returns the same *)
(* name.                                                                   *)
C14_DistinctNames ==
    Len(mnames) = 3 =>
        /\ mpaths[1] # mpaths[2] => mnames[1] # mnames[2]
        /\ mnames[3] = mnames[1]

(* C14, amended: a repeated call returns the same name; two paths get the  *)
(* same flat name exactly when their joined bases are equal and their md5  *)
(* digests agree on the first 8 hex digits (as for a.7sf and a.ait3); the  *)
(* pairs a/b/file.html, a/b/file.htm and a/b.html, a__b.html, whose bases  *)
(* are equal, get different names.                                         *)
C14_DistinctUnlessDigestsClash ==
    Len(mnames) = 3 =>
        /\ mnames[3] = mnames[1]
        /\ (mnames[1] = mnames[2]) <=>
              /\ JoinedBase(mpaths[1]) = JoinedBase(mpaths[2])
              /\ Md5Hex8(Join(<<"/">>, mpaths[1])) = Md5Hex8(Join(<<"/">>, mpaths[2]))
        /\ {mpaths[1], mpaths[2]} \in {{RelDeepHtml, RelDeepHtm},
                                      {RelNested, RelUnderscored}}
              => mnames[1] # mnames[2]

\* two different paths were given one and the same name
C14_Witness ==
    /\ Len(mnames) = 3
    /\ mpaths[1] # mpaths[2]
    /\ mnames[1] = mnames[2]

(* C15: the flat name of a path with directory segments d1..dk and a file  *)
(* name of stem s is exactly d1__...__dk__s__<8 hex chars><ext>: directory *)
(* segments are kept whole, only the last extension of the file name is    *)
(* removed, and a file name without a dot is used as it is.                *)
C15_FlatNameShape ==
    Len(mnames) >= 1 =>
        LET name == mnames[1]
            head == SegmentsAndStem(mpaths[1]) \o <<"_", "_">>
            ext  == IF mformat = "txt" THEN ExtTxt ELSE ExtMd
        IN  /\ Len(name) = Len(head) + 8 + Len(ext)
            /\ Slice(name, 1, Len(head)) = head
            /\ \A i \in (Len(head) + 1)..(Len(head) + 8) : name[i] \in HexDigits
            /\ EndsWith(name, ext)

\* the call that wrote, or kept, an output file has returned its path
WReturned == wret # None /\ ~wret[1].raised /\ wret[1].out_path # NoPath

\* the file name of the returned path
WName == wret[1].out_path[Len(wret[1].out_path)]

(* C16, as claimed: the output file ends in .md when output_format is      *)
(* "markdown" and in .txt for every other output_format, in flat and in    *)
(* mirrored mode.                                                          *)
C16_TxtUnlessMarkdown ==
    WReturned =>
        IF wcall[1].output_format = "markdown"
        THEN EndsWith(WName, ExtMd)
        ELSE EndsWith(WName, ExtTxt)

(* C16, amended: the output file ends in .txt when output_format is "txt"  *)
(* and in .md for every other output_format ("markdown" or anything        *)
(* else), in flat and in mirrored mode.                                    *)
C16_MdUnlessTxt ==
    WReturned =>
        IF wcall[1].output_format = "txt"
        THEN EndsWith(WName, ExtTxt)
        ELSE EndsWith(WName, ExtMd)

\* a mirrored path for an output_format that is neither "txt" nor "markdown"
C16_Witness ==
    /\ WReturned
    /\ wcall[1].output_format = "xml"
    /\ ~wcall[1].flat_output
    /\ EndsWith(WName, ExtMd)

(***************************************************************************)
(* The retriever, described without its loop                               *)
(***************************************************************************)
\* _find_best_article has returned
Retrieved == apc \in {"relay", "last", "ended", "blocked", "abandoned"}

\* the documents that get a score: the *.md files of DATA_DIR that can be read
Scored ==
    IF dataDirExists
    THEN {f \in DOMAIN corpus : EndsWith(f, MdSuffix) /\ f \notin unreadable}
    ELSE {}

\* the score of a document: the sum, over the query terms, of the term's
\* occurrence count in the lowercased text
DocScore(f) == Score(ToLower(corpus[f]), query_terms)

(* C17: _find_best_article returns none exactly when no document (that can *)
(* be read) has a score greater than zero, an empty corpus included;       *)
(* otherwise the returned document has a strictly positive score that is   *)
(* at least the score of every other document.  A document without hits is *)
(* never returned.                                                         *)
C17_BestHasMaxPositiveScore ==
    Retrieved =>
        /\ article_path = None <=> \A f \in Scored : DocScore(f) = 0
        /\ article_path # None =>
              /\ article_path[1] \in Scored
              /\ DocScore(article_path[1]) > 0
              /\ \A f \in Scored : DocScore(article_path[1]) >= DocScore(f)

\* two documents with different positive scores: the one listed last won
C17_Witness ==
    /\ Retrieved
    /\ article_path # None
    /\ \E f \in Scored : /\ DocScore(f) > 0
                         /\ DocScore(f) < DocScore(article_path[1])
                         /\ listing[1] = f

\* the documents with the highest score
TopScored == {f \in Scored : \A g \in Scored : DocScore(f) >= DocScore(g)}

(* C18: when several documents tie for the maximum positive score, the one *)
(* that comes first in sorted document order is returned, whatever the     *)
(* order of the directory listing.                                         *)
C18_TieGoesToSortedFirst ==
    (Retrieved /\ article_path # None) =>
        \A f \in TopScored : f = article_path[1] \/ StrLess(article_path[1], f)

\* the question has a character that is neither whitespace nor punctuation
HasToken(q) == \E i \in 1..Len(q) : ~IsSpace(q[i]) /\ q[i] \notin Punctuation

\* the lowercased, punctuation-stripped, whitespace-split tokens of the question
TokensOf(q) == SplitWhitespace(StripPunctuation(ToLower(q)), <<>>)

(* C19: the query terms are the tokens of the question (lowercased,        *)
(* punctuation stripped, split on whitespace) that are not stop words, in  *)
(* order; when every token is a stop word they are all the tokens.  The    *)
(* term list is empty only when the question has no token.                 *)
C19_QueryTerms ==
    Retrieved =>
        LET tokens == TokensOf(question)
            kept   == SelectSeq(tokens, LAMBDA t : t \notin stop_words)
        IN  /\ query_terms = IF kept = <<>> THEN tokens ELSE kept
            /\ query_terms = <<>> <=> ~HasToken(question)
            /\ \A i \in 1..Len(query_terms) :
                  /\ query_terms[i] # <<>>
                  /\ \A k \in 1..Len(query_terms[i]) :
                        /\ ~IsSpace(query_terms[i][k])
                        /\ query_terms[i][k] \notin Punctuation
                        /\ query_terms[i][k] \notin {"A", "N", "X"}

\* a question made of stop words only was scored with those words
C19_Witness ==
    /\ Retrieved
    /\ Len(TokensOf(question)) = 2
    /\ \A i \in 1..2 : TokensOf(question)[i] \in stop_words
    /\ Len(query_terms) = 2

(* C20: when the retriever returns none, _ask_news_logic_stream yields     *)
(* exactly one message, the no-relevant-article message, then ends, and    *)
(* the completion collaborator is never called for that question.          *)
C20_NoArticleOneMessage ==
    (Retrieved /\ article_path = None) =>
        /\ apc \in {"last", "ended"}
        /\ Len(stream) = 1
        /\ stream[1] = "I couldn't find any relevant news articles to answer your question."
        /\ ollamaCalls = 0
        /\ upstream = <<>>

\* a corpus with a readable article, none of it relevant: the stream has ended
C20_Witness ==
    /\ apc = "ended"
    /\ article_path = None
    /\ Scored # {}
    /\ query_terms # <<>>
    /\ Len(stream) = 1

(***************************************************************************)
(* The answer stream, described by the lines received                      *)
(***************************************************************************)
\* the lines up to and including the first one whose done is true
RECURSIVE UpToDone(_)
UpToDone(lines) ==
    IF lines = <<>> THEN <<>>
    ELSE IF lines[1] \in {"t1_done", "done"} THEN <<lines[1]>>
         ELSE <<lines[1]>> \o UpToDone(Tail(lines))

\* the response values of the payload lines, in arrival order
RECURSIVE Responses(_)
Responses(lines) ==
    IF lines = <<>> THEN <<>>
    ELSE (CASE lines[1] \in {"t1", "t1_done"} -> <<"t1">>
            [] lines[1] = "t2" -> <<"t2">>
            [] OTHER -> <<>>) \o Responses(Tail(lines))

Received(kinds) == \E k \in 1..Len(upstream) : upstream[k] \in kinds

(* C21: in a stream without failure the tokens yielded are, at every       *)
(* moment, exactly the response values of the lines received so far, in    *)
(* arrival order, up to and including the first line whose done is true;   *)
(* no line is read after that one.                                         *)
C21_TokensInArrivalOrder ==
    (connect = "ok" /\ ~Received({"broken", "not_object", "stall"})) =>
        /\ stream = Responses(UpToDone(upstream))
        /\ UpToDone(upstream) = upstream
        /\ Received({"t1_done", "done"}) => apc \in {"last", "ended", "abandoned"}

\* two different tokens were relayed in the order they came, the second one
\* on the line that signals done
C21_Witness ==
    /\ apc = "ended"
    /\ upstream = <<"t2", "t1_done">>
    /\ stream = <<"t2", "t1">>

(* C22: a payload line that is not a well-formed payload object (not JSON, *)
(* or JSON that is not an object) is skipped: it yields no token and does  *)
(* not end the stream, and the well-formed lines after it are relayed.     *)
C22_MalformedSkipped ==
    (connect = "ok" /\ ~Received({"broken", "stall"})) =>
        /\ stream = Responses(UpToDone(upstream))
        /\ (upstream # <<>> /\ upstream[Len(upstream)] \in {"malformed", "not_object"})
              => apc \in {"relay", "ended", "abandoned"}

\* the collaborator failed: the request was refused, its status was bad, or
\* the connection broke while lines were read
CollaboratorFailed ==
    connect \in {"refused", "bad_status"} \/ Received({"broken"})

(* C23: on a failure of the collaborator, when connecting, on a bad status *)
(* or while lines are read after tokens were relayed, the stream yields    *)
(* exactly one diagnostic token, as its last token, and ends; nothing is   *)
(* raised to the caller.                                                   *)
C23_OneDiagnosticToken ==
    CollaboratorFailed =>
        /\ apc \in {"last", "ended"}
        /\ stream # <<>>
        /\ stream[Len(stream)] = "Error communicating with Ollama"
        /\ Cardinality({k \in 1..Len(stream) :
                          stream[k] = "Error communicating with Ollama"}) = 1
        /\ ~connOpen

\* the connection broke after a token had been relayed
C23_Witness ==
    /\ apc = "ended"
    /\ upstream = <<"t1", "broken">>
    /\ stream = <<"t1", "Error communicating with Ollama">>

(* C24: no state is reachable in which the caller has stopped consuming    *)
(* the stream and the connection to the collaborator is still open.        *)
C24_CancelReleases ==
    ~(cancelled /\ connOpen)

(* C25: every call to the completion collaborator ends: the stream comes   *)
(* to its end (with a diagnostic token when the collaborator does not      *)
(* answer) or is given up by the caller; it never waits forever.           *)
C25_CallEnds ==
    <>(apc \in {"ended", "abandoned"})

(***************************************************************************)
(* The outcomes of a run against the files it leaves                       *)
(***************************************************************************)
(* C28: within one run_batch call, in flat and in mirrored mode, two       *)
(* distinct input documents never resolve to the same output path: no two  *)
(* successful outcomes of a run report the same output path, and no output *)
(* file opened for one document is opened again for another.               *)
C28_DistinctOutputPaths ==
    pc = "returned" =>
        /\ \A i, j \in DOMAIN results :
              (i # j /\ results[i].ok /\ results[j].ok)
                  => results[i].output_path # results[j].output_path
        /\ \A t, u \in touched : t.pos # u.pos => t.path # u.path

(* C30, as claimed: at the end of a run, for every outcome with ok=true    *)
(* output_path names an existing file and extracted_chars is the length of *)
(* that file's content; for every outcome with ok=false output_path is     *)
(* null, extracted_chars is 0 and error is not null.                       *)
C30_CharsMatchFile ==
    pc = "returned" =>
        \A i \in DOMAIN results :
            IF results[i].ok
            THEN /\ results[i].output_path \in DOMAIN fs
                 /\ results[i].extracted_chars = Len(fs[results[i].output_path])
            ELSE /\ results[i].output_path = NoPath
                 /\ results[i].extracted_chars = 0
                 /\ results[i].error # NoValue

\* the text clean_html_file gives for the i-th file of the run
CleanedText(i) == clean_html_file(html_files[i], args.output_format, "text").text

\* the i-th step wrote its output file and no later step of the run opened it
WroteLast(i) ==
    /\ \E t \in touched : t.pos = i
    /\ \A t \in touched : t.pos <= i \/ t.path # results[i].output_path

(* C30, amended: at the end of a run, for every outcome with ok=true       *)
(* output_path names an existing file and extracted_chars is the length of *)
(* the text extracted from the input in this run; the file holds that text *)
(* when this step wrote it and no later step of the run opened the same    *)
(* path, but a file kept because overwrite is off, or written again for    *)
(* another input, may hold a text of another length.  For every outcome    *)
(* with ok=false output_path is null, extracted_chars is 0 and error is    *)
(* not null.                                                               *)
C30_CharsMatchExtractedText ==
    pc = "returned" =>
        \A i \in DOMAIN results :
            IF results[i].ok
            THEN /\ results[i].output_path \in DOMAIN fs
                 /\ results[i].extracted_chars = Len(CleanedText(i))
                 /\ WroteLast(i) => fs[results[i].output_path] = CleanedText(i)
            ELSE /\ results[i].output_path = NoPath
                 /\ results[i].extracted_chars = 0
                 /\ results[i].error # NoValue

\* an output file left by an earlier run was kept: the outcome is ok and its
\* extracted_chars is not the length of the file
C30_Witness ==
    /\ pc = "returned"
    /\ \E i \in DOMAIN results :
          /\ results[i].ok
          /\ ~args.overwrite
          /\ fs[results[i].output_path] = OldText
          /\ results[i].extracted_chars # Len(OldText)

(***************************************************************************)
(* The batch-scrape endpoint                                               *)
(***************************************************************************)
(* C26: POST /batch-scrape answers 200 with exactly one result per         *)
(* requested URL, in request order, each carrying its own url; a URL whose *)
(* scrape gives no data or raises has success=false and an error, for that *)
(* URL only, every other URL is still scraped and reported as a success,   *)
(* and an empty URL list gives an empty result list.                       *)
C26_OneResultPerUrl ==
    spc = "returned" =>
        /\ sstatus = 200
        /\ Len(sresults) = Len(surls)
        /\ Len(sscraped) = Len(surls)
        /\ \A i \in DOMAIN surls :
              /\ sresults[i].url = surls[i]
              /\ sresults[i].success <=> sscraped[i] = "data"
              /\ sresults[i].success => sresults[i].error = None
              /\ ~sresults[i].success =>
                    /\ sresults[i].error # None
                    /\ sresults[i].data = None
        /\ surls = <<>> => sresults = <<>>

\* three URLs, the second one repeated from the first, where the scrape of
\* the first gives no data, the second raises and the third succeeds
C26_Witness ==
    /\ spc = "returned"
    /\ Len(surls) = MaxUrls
    /\ surls[1] = surls[2]
    /\ sscraped = <<"none", "raises", "data">>
    /\ sresults[3].success

(***************************************************************************)
(* The exit status of the commands                                         *)
(***************************************************************************)
RunReturned == coutcome # None /\ ~coutcome[1].raises

(* C27: a command that passed its checks exits with 0 when no document     *)
(* failed, also when the prompt of select returns nothing or no file is    *)
(* selected, with 1 when at least one document failed, and with 2 only     *)
(* when run_batch or the prompt raised an error.                           *)
C27_ExitStatus ==
    (cpc = "exited" /\ cformatOk /\ cinputExists) =>
        /\ canswer \in {"none", "empty"} => cexit = Some(0)
        /\ (RunReturned /\ coutcome[1].failed = 0) => cexit = Some(0)
        /\ (RunReturned /\ coutcome[1].failed > 0) => cexit = Some(1)
        /\ cexit = Some(2) =>
              \/ canswer = "raises"
              \/ coutcome # None /\ coutcome[1].raises

(***************************************************************************)
(* Reading an article                                                      *)
(***************************************************************************)
\* the file system takes the filename to a place that is not under DATA_DIR
ResolvesOutside(filename) ==
    LET place == Located(UnderDataDir(filename)) IN
    /\ place # None
    /\ ~IsRelativeTo(place[1], DATA_DIR)

(* C29: the call never returns the content of a file outside DATA_DIR: for *)
(* every filename that resolves to a place outside the data directory      *)
(* (absolute, or relative with ".." segments) it raises and gives no       *)
(* content.                                                                *)
C29_NoContentFromOutside ==
    (gpc = "done" /\ ResolvesOutside(gfilename)) =>
        /\ gresult[1].raised # NoValue
        /\ gresult[1].content = ""

=============================================================================
